---- MODULE Spec2Model ----
(***************************************************************************)
(* Payment verification and session unlock of the Echo marketplace.        *)
(*                                                                         *)
(*   api/payment/verify.ts   the server-side verifier, its HTTP handler    *)
(*                           and the create-intent handler                 *)
(*   src/App.tsx             the session store, the client-side verifier   *)
(*                           the pay modal and the chat view               *)
(*                                                                         *)
(* Eight specifications share the module:                                  *)
(*   SpecVerify   verifyTransactionOnChain as a function of the fetched    *)
(*                transaction and the expected payment                     *)
(*   SpecVerifyRpc  verifyTransactionOnChain with the fetch it makes and   *)
(*                the buyer it is given                                    *)
(*   SpecServer   the verify handler with its RPC endpoints                *)
(*   SpecIntent   the create-intent handler and its registry of payment    *)
(*                intents, with the clock                                  *)
(*   SpecClient   the wallet, the pay modal, the payment attempts and the  *)
(*                sessions they store, over the agents as they are         *)
(*   SpecClientLive  SpecClient with every awaited call of a payment       *)
(*                attempt returning or failing                             *)
(*   SpecChat     the chat view with its limits, the chat history and the  *)
(*                session store, with the clock in steps of 20 s           *)
(*   SpecStore    the session store under the calls App makes of it, with  *)
(*                the edit form changing the agents                        *)
(*                                                                         *)
(* Amounts.  A decimal USDC amount (a JS number, or the uiAmountString of  *)
(* a token balance) is modelled as an integer count of 10^-7 USDC, one     *)
(* digit finer than the token's 6 decimals, so that the conversion to raw  *)
(* units, Math.round(x * 10 ** 6), rounds.  Float error of the subtraction *)
(* postAmount - preAmount is below half a raw unit for balances under      *)
(* about 10^9 USDC and is not modelled.                                    *)
(***************************************************************************)
EXTENDS Integers, Sequences, FiniteSets, Bags, TLC

VARIABLES
    \* ---- SpecVerify: one call of verifyTransactionOnChain
    tx,               \* what getTransaction returned (null: not found)
    expectedReceiver,
    expectedAmount,
    expectedBuyer,
    verdict,          \* the VerificationResult, NoVerdict before the call
    \* ---- the clock, Date.now()
    now,
    \* ---- SpecServer: the verify endpoint
    chain,            \* the ledger: signature -> transaction (null: not there yet)
    req,              \* the latest request, NoReq before the first
    rpcLog,           \* the fetches its handler made, in order
    response,         \* the response it was sent
    paymentIntents,   \* the create-intent endpoint's registry: intent id -> intent
    last,             \* the latest verdict read from the ledger as it is now
    \* ---- SpecClient: src/App.tsx
    agents,           \* the agents state: id -> Agent
    editingAgentId,   \* the agent in the edit form, None outside edit mode
    connected,        \* the wallet state of App
    address,
    walletPk,
    selected,         \* the Agent object in the selected state, or null
    payModalOpen,
    modalState,
    attempts,         \* the handlePay invocations in flight, a bag
    storage,          \* localStorage: agent id -> the item under echo_session_<id>
    storeCall,        \* the latest call of the session store
    chat,             \* ChatView: NoChat while no chat route is rendered
    chatStore,        \* localStorage: agent id -> the item under echo_chat_<id>
    sentSincePaid,    \* history: agent id -> user messages sent since saveSession
    paid,             \* agent id -> the latest valid verdict of the client verifier
    io                \* what the latest handler step was answered, alerted and pushed

verifyVars == <<tx, expectedReceiver, expectedAmount, expectedBuyer, verdict>>
serverVars == <<chain, req, rpcLog, response, last, paymentIntents>>
walletVars == <<connected, address, walletPk>>
modalVars == <<selected, payModalOpen, modalState>>
storeVars == <<storage, storeCall>>
chatVars == <<chat, chatStore, sentSincePaid>>
clientVars == <<agents, editingAgentId, walletVars, modalVars, attempts, storeVars, paid, io,
                chatVars>>

vars == <<verifyVars, now, serverVars, clientVars>>

\* JS null / undefined: of an object, and of a string
null == [null |-> TRUE]
None == "none"
NoVerdict == [none |-> "verdict"]

-----------------------------------------------------------------------------
(* Program constants of api/payment/verify.ts *)

USDC_MINT == "EPjFWdd5AufqSSqeM2qN1xzybapC8G4wEGGkZwyTDt1v"
USDC_DECIMALS == 6
\* the literal of the tolerance test, in raw units
TOLERANCE_RAW == 10000

\* Units of the model's decimal amounts per USDC, and per raw unit.
AmountScale == 10 * (10 ^ USDC_DECIMALS)
UnitsPerRaw == AmountScale \div (10 ^ USDC_DECIMALS)

\* Math.round(amount * 10 ** USDC_DECIMALS): half rounds up.
toRaw(amount) == (2 * amount + UnitsPerRaw) \div (2 * UnitsPerRaw)

Abs(n) == IF n < 0 THEN -n ELSE n

\* parseFloat(b.uiTokenAmount?.uiAmountString || "0"); ui is <<>> or <<amount>>
parseUiAmount(b) == IF b.ui = <<>> THEN 0 ELSE b.ui[1]

\* tx.meta.preTokenBalances || [], tx.meta.postTokenBalances || []
preBalancesOf(meta) ==
    IF "preTokenBalances" \in DOMAIN meta THEN meta.preTokenBalances ELSE <<>>
postBalancesOf(meta) ==
    IF "postTokenBalances" \in DOMAIN meta THEN meta.postTokenBalances ELSE <<>>

-----------------------------------------------------------------------------
(* The verdict's reasons.  A template string is its fixed text and its     *)
(* interpolated values.                                                    *)

ReasonNotFound == "Transaction not found. Please wait for confirmation."
ReasonNoMeta == "Transaction metadata not available"
ReasonFailedOnChain == "Transaction failed on-chain: "
ReasonNoTransfer == "No USDC transfer found to "
ReasonAmountMismatch == "Amount mismatch: expected , received "

Reject(text, about, expected, received) ==
    [valid |-> FALSE,
     reason |-> [text |-> text, about |-> about, expected |-> expected, received |-> received]]
Accept(amount, receiver) ==
    [valid |-> TRUE, amount |-> amount, receiver |-> receiver, verifiedAt |-> now]

-----------------------------------------------------------------------------
(* verifyTransactionOnChain, api/payment/verify.ts 78-207 *)

\* preBalances.find(p => p.accountIndex === post.accountIndex && p.mint === USDC_MINT)
RECURSIVE findPre(_, _, _)
findPre(preBalances, post, i) ==
    IF i > Len(preBalances) THEN null
    ELSE IF preBalances[i].accountIndex = post.accountIndex /\ preBalances[i].mint = USDC_MINT
         THEN preBalances[i]
         ELSE findPre(preBalances, post, i + 1)

preAmountOf(preBalances, post) ==
    LET pre == findPre(preBalances, post, 1)
    IN  IF pre # null THEN parseUiAmount(pre) ELSE 0

\* Mutant of scanTransfer: the loop without its break keeps the last positive delta.
RECURSIVE scanTransfer_NoBreak(_, _, _, _)
scanTransfer_NoBreak(preBalances, postBalances, receiver, i) ==
    IF i > Len(postBalances) THEN <<FALSE, 0>>
    ELSE LET post == postBalances[i]
             diff == parseUiAmount(post) - preAmountOf(preBalances, post)
             rest == scanTransfer_NoBreak(preBalances, postBalances, receiver, i + 1)
         IN  IF rest[1] THEN rest
             ELSE IF post.mint = USDC_MINT /\ post.owner = receiver /\ diff > 0
                  THEN <<TRUE, diff>>
                  ELSE <<FALSE, 0>>

\* The first loop (118-138): the result is <<foundValidTransfer, actualAmount>>.
RECURSIVE scanTransfer(_, _, _, _)
scanTransfer(preBalances, postBalances, receiver, i) ==
    IF i > Len(postBalances) THEN <<FALSE, 0>>
    ELSE LET post == postBalances[i]
             diff == parseUiAmount(post) - preAmountOf(preBalances, post)
         IN  IF post.mint = USDC_MINT /\ post.owner = receiver /\ diff > 0
             THEN <<TRUE, diff>>
             ELSE scanTransfer(preBalances, postBalances, receiver, i + 1)

\* The second loop (140-160), run when the first found nothing.
RECURSIVE scanTransferAgain(_, _, _, _)
scanTransferAgain(preBalances, postBalances, receiver, i) ==
    IF i > Len(postBalances) THEN <<FALSE, 0>>
    ELSE LET post == postBalances[i]
             postAmount == parseUiAmount(post)
             preAmount == preAmountOf(preBalances, post)
         IN  IF post.mint = USDC_MINT /\ postAmount > preAmount /\ post.owner = receiver
             THEN <<TRUE, postAmount - preAmount>>
             ELSE scanTransferAgain(preBalances, postBalances, receiver, i + 1)

findTransfer(preBalances, postBalances, receiver) ==
    LET first == scanTransfer(preBalances, postBalances, receiver, 1)
    IN  IF first[1] THEN first
        ELSE scanTransferAgain(preBalances, postBalances, receiver, 1)

\* Mutant of amountAccepted: the comparison rejects a difference of exactly the tolerance.
amountAccepted_Strict(actualAmount, expected) ==
    ~ (Abs(toRaw(actualAmount) - toRaw(expected)) >= TOLERANCE_RAW)

\* 169-178: the tolerance test on raw units
amountAccepted(actualAmount, expected) ==
    ~ (Abs(toRaw(actualAmount) - toRaw(expected)) > TOLERANCE_RAW)

\* 107-198: a transaction with metadata and no error
checkBalances(t, receiver, amount) ==
    LET found == findTransfer(preBalancesOf(t.meta), postBalancesOf(t.meta), receiver)
    IN  IF ~ found[1] THEN Reject(ReasonNoTransfer, receiver, 0, 0)
        ELSE IF ~ amountAccepted(found[2], amount)
             THEN Reject(ReasonAmountMismatch, None, amount, found[2])
             ELSE Accept(found[2], receiver)

\* Mutant of verifyTransactionOnChain: a payment verified once is refused afterwards.
verifyTransactionOnChain_Once(t, receiver, amount, buyer) ==
    IF "valid" \in DOMAIN last /\ last.valid /\ last.key[2] = receiver /\ last.key[3] = amount
    THEN Reject("Payment already verified", None, 0, 0)
    ELSE IF t = null THEN Reject(ReasonNotFound, None, 0, 0)
    ELSE IF t.meta = null THEN Reject(ReasonNoMeta, None, 0, 0)
    ELSE IF t.meta.err # None THEN Reject(ReasonFailedOnChain, t.meta.err, 0, 0)
    ELSE checkBalances(t, receiver, amount)

\* Mutant of verifyTransactionOnChain: meta.err is looked at only after the balances
\* failed to show the payment.
verifyTransactionOnChain_ErrLast(t, receiver, amount, buyer) ==
    IF t = null THEN Reject(ReasonNotFound, None, 0, 0)
    ELSE IF t.meta = null THEN Reject(ReasonNoMeta, None, 0, 0)
    ELSE IF checkBalances(t, receiver, amount).valid THEN checkBalances(t, receiver, amount)
    ELSE IF t.meta.err # None THEN Reject(ReasonFailedOnChain, t.meta.err, 0, 0)
    ELSE checkBalances(t, receiver, amount)

\* Mutant of verifyTransactionOnChain: a fee payer other than the buyer is refused.
verifyTransactionOnChain_BuyerChecked(t, receiver, amount, buyer) ==
    IF t = null THEN Reject(ReasonNotFound, None, 0, 0)
    ELSE IF t.meta = null THEN Reject(ReasonNoMeta, None, 0, 0)
    ELSE IF t.meta.err # None THEN Reject(ReasonFailedOnChain, t.meta.err, 0, 0)
    ELSE IF checkBalances(t, receiver, amount).valid /\ buyer # None /\ t.feePayer # buyer
         THEN Reject("Buyer mismatch", buyer, 0, 0)
         ELSE checkBalances(t, receiver, amount)

\* 95-105, then the balance checks.  180-190 compare the fee payer with the
\* buyer and write a console line when they differ: no verdict comes of it.
verifyTransactionOnChain(t, receiver, amount, buyer) ==
    IF t = null THEN Reject(ReasonNotFound, None, 0, 0)
    ELSE IF t.meta = null THEN Reject(ReasonNoMeta, None, 0, 0)
    ELSE IF t.meta.err # None THEN Reject(ReasonFailedOnChain, t.meta.err, 0, 0)
    ELSE checkBalances(t, receiver, amount)

-----------------------------------------------------------------------------
(* The transactions and expected payments SpecVerify draws its inputs from *)

\* accounts of a transaction: token balances carry an accountIndex below it
MaxAccounts == 2

Wallets == {"R", "X"}
OTHER_MINT == "OtherMint"

\* 0.25, 0.30 and 0.320001 USDC
PostAmounts == {<<2500000>>, <<3000000>>, <<3200010>>}
\* 0.01 USDC, or no uiAmountString
PreAmounts == {<<100000>>, <<>>}
\* 0.30 and 0.3100005 USDC: raw 300000 and, rounded half up, 310001
ExpectedAmounts == {3000000, 3100005}
ErrPayloads == {"InstructionError"}

\* Entries of the receiver's USDC account carry every amount; an entry of another
\* owner or another mint carries 0.30 USDC.
PostEntries ==
    { [accountIndex |-> i, mint |-> USDC_MINT, owner |-> "R", ui |-> a] :
        i \in 0 .. (MaxAccounts - 1), a \in PostAmounts }
    \cup
    { [accountIndex |-> i, mint |-> USDC_MINT, owner |-> "X", ui |-> <<3000000>>] :
        i \in 0 .. (MaxAccounts - 1) }
    \cup
    { [accountIndex |-> i, mint |-> OTHER_MINT, owner |-> "R", ui |-> <<3000000>>] :
        i \in 0 .. (MaxAccounts - 1) }

\* the verifier reads accountIndex, mint and uiAmountString of a pre-balance
PreEntries ==
    { [accountIndex |-> i, mint |-> USDC_MINT, ui |-> a] :
        i \in 0 .. (MaxAccounts - 1), a \in PreAmounts }
    \cup
    { [accountIndex |-> i, mint |-> OTHER_MINT, ui |-> <<100000>>] :
        i \in 0 .. (MaxAccounts - 1) }

\* An account has at most one entry in each array; postTokenBalances in any order.
PostArrays ==
    UNION { { s \in [1 .. k -> PostEntries] :
                \A i, j \in 1 .. k : i < j => s[i].accountIndex # s[j].accountIndex } :
            k \in 0 .. MaxAccounts }

PreArrays ==
    UNION { { s \in [1 .. k -> PreEntries] :
                \A i, j \in 1 .. k : i < j => s[i].accountIndex < s[j].accountIndex } :
            k \in 0 .. MaxAccounts }

Metas ==
    { [err |-> e, preTokenBalances |-> pre, postTokenBalances |-> post] :
        e \in {None} \cup ErrPayloads, pre \in PreArrays, post \in PostArrays }
    \cup
    \* no balance arrays at all
    { [err |-> e] : e \in {None} \cup ErrPayloads }

\* a fetched transaction: its meta (null: no metadata) and its fee payer
Transactions == { [meta |-> m, feePayer |-> "B"] : m \in Metas \cup {null} }

-----------------------------------------------------------------------------
(* The verify endpoint: getWorkingRpc, rpcCall and handler,                *)
(* api/payment/verify.ts 12-66 and 209-297                                 *)

RPC_ENDPOINTS == <<"SOLANA_RPC_URL", "solana-api.projectserum.com", "rpc.ankr.com">>

\* What a fetch of an endpoint does: the health probe answers with response.ok
\* ("ok"), answers without it ("notok") or the fetch throws ("throws").
HealthOutcomes == {"ok", "notok", "throws"}
\* The getTransaction fetch returns the result, returns a JSON-RPC error, returns
\* a body that is no JSON, or throws.
CallOutcomes == {"result", "rpcerror", "badjson", "throws"}
\* What the endpoints answer to one run of getWorkingRpc under SpecServer: the
\* probes that fail before the first ok fail alike, and an endpoint after the
\* first ok, which is not probed, is given "ok".
HealthRuns ==
    { h \in [1 .. 3 -> HealthOutcomes] :
        \A i, j \in 1 .. 3 :
            /\ (i < j /\ h[i] = "ok") => h[j] = "ok"
            /\ (h[i] # "ok" /\ h[j] # "ok") => h[i] = h[j] }

\* 18-38: probes in order, the first endpoint whose probe is ok; RPC_ENDPOINTS[0]
\* when none is.  health[i] is what endpoint i answers when probed.
RECURSIVE getWorkingRpcFrom(_, _)
getWorkingRpcFrom(health, i) ==
    IF i > Len(RPC_ENDPOINTS) THEN [url |-> RPC_ENDPOINTS[1], probes |-> <<>>]
    ELSE LET entry == [endpoint |-> RPC_ENDPOINTS[i], method |-> "getHealth",
                       outcome |-> health[i]]
         IN  IF health[i] = "ok"
             THEN [url |-> RPC_ENDPOINTS[i], probes |-> <<entry>>]
             ELSE LET rest == getWorkingRpcFrom(health, i + 1)
                  IN  [url |-> rest.url, probes |-> <<entry>> \o rest.probes]

getWorkingRpc(health) == getWorkingRpcFrom(health, 1)

\* 40-66: the fetch of the chosen endpoint; result or the Error thrown
rpcCall(ledger, signature, outcome) ==
    CASE outcome = "result" ->
            [threw |-> FALSE, message |-> "",
             result |-> IF signature \in DOMAIN ledger THEN ledger[signature] ELSE null]
      [] outcome = "rpcerror" -> [threw |-> TRUE, result |-> null, message |-> "RPC error"]
      [] outcome = "badjson" ->
            [threw |-> TRUE, result |-> null, message |-> "Unexpected token in JSON"]
      [] outcome = "throws" -> [threw |-> TRUE, result |-> null, message |-> "fetch failed"]

\* 200-206: error?.message || "Failed to verify transaction"
caughtReason(message) == IF message = "" THEN "Failed to verify transaction" ELSE message

\* Mutant of verifyFetched: no catch, the Error of the fetch leaves the function.
verifyFetched_NoCatch(fetched, receiver, amount, buyer) ==
    IF fetched.threw THEN [threw |-> TRUE, message |-> fetched.message]
    ELSE verifyTransactionOnChain(fetched.result, receiver, amount, buyer)

\* 78-207 with its try/catch around the fetch
verifyFetched(fetched, receiver, amount, buyer) ==
    IF fetched.threw THEN Reject(caughtReason(fetched.message), None, 0, 0)
    ELSE verifyTransactionOnChain(fetched.result, receiver, amount, buyer)

(* JSON values of the request body *)
Str(s) == [type |-> "string", str |-> s, num |-> 0]
Num(n) == [type |-> "number", str |-> "", num |-> n]
Undefined == [type |-> "undefined", str |-> "", num |-> 0]
Truthy(v) == (v.type = "string" /\ v.str # "") \/ (v.type = "number" /\ v.num # 0)

\* The signature strings of the model, their length and whether every character
\* is of the base58 alphabet.
StrLen(s) ==
    CASE s = "S1" -> 88 [] s = "S2" -> 87 [] s = "short86" -> 86 [] s = "long89" -> 89
      [] s = "zero88" -> 88 [] s = "" -> 0 [] OTHER -> 1
IsBase58(s) == s # "zero88"

\* 249: /^[1-9A-HJ-NP-Za-km-z]{87,88}$/.test(signature)
signatureFormatOk(s) == IsBase58(s) /\ StrLen(s) >= 87 /\ StrLen(s) <= 88

ErrMethod == "Method not allowed"
ErrSignatureRequired == "Transaction signature is required"
ErrReceiverRequired == "Receiver address is required"
ErrAmountRequired == "Valid amount is required"
ErrSignatureFormat == "Invalid transaction signature format"
ErrServer == "Server error during verification"

NoReq == [none |-> "request"]
NoResponse == [none |-> "response"]
NoLast == [none |-> "verdict read"]

Refuse(status, text) ==
    [status |-> status, verified |-> FALSE,
     error |-> [text |-> text, about |-> None, expected |-> 0, received |-> 0]]

\* Mutant of validateRequest: the signature format is not tested.
validateRequest_NoFormatTest(r) ==
    IF r.method = "OPTIONS" THEN [status |-> 200, verified |-> FALSE, ended |-> TRUE]
    ELSE IF r.method # "POST" THEN Refuse(405, ErrMethod)
    ELSE IF ~ r.hasBody THEN Refuse(500, ErrServer)
    ELSE IF ~ Truthy(r.signature) \/ r.signature.type # "string"
         THEN Refuse(400, ErrSignatureRequired)
    ELSE IF ~ Truthy(r.receiver) \/ r.receiver.type # "string"
         THEN Refuse(400, ErrReceiverRequired)
    ELSE IF r.amount.type # "number" \/ r.amount.num <= 0
         THEN Refuse(400, ErrAmountRequired)
    ELSE NoResponse

\* 223-254: the checks made before any fetch; NoResponse when the request passes
validateRequest(r) ==
    IF r.method = "OPTIONS" THEN [status |-> 200, verified |-> FALSE, ended |-> TRUE]
    ELSE IF r.method # "POST" THEN Refuse(405, ErrMethod)
    ELSE IF ~ r.hasBody THEN Refuse(500, ErrServer)
    ELSE IF ~ Truthy(r.signature) \/ r.signature.type # "string"
         THEN Refuse(400, ErrSignatureRequired)
    ELSE IF ~ Truthy(r.receiver) \/ r.receiver.type # "string"
         THEN Refuse(400, ErrReceiverRequired)
    ELSE IF r.amount.type # "number" \/ r.amount.num <= 0
         THEN Refuse(400, ErrAmountRequired)
    ELSE IF ~ signatureFormatOk(r.signature.str)
         THEN Refuse(400, ErrSignatureFormat)
    ELSE NoResponse

\* 268-287: the response made of the verdict
respond(r, v) ==
    IF v.valid
    THEN [status |-> 200, verified |-> TRUE, signature |-> r.signature.str,
          amount |-> v.amount, receiver |-> v.receiver, verifiedAt |-> v.verifiedAt]
    ELSE [status |-> 400, verified |-> FALSE, error |-> v.reason,
          signature |-> r.signature.str]

buyerOf(r) == IF r.buyer.type = "string" THEN r.buyer.str ELSE None

\* the arguments of a verification: what two identical calls share
keyOf(r) == <<r.signature.str, r.receiver.str, r.amount.num, buyerOf(r)>>

(* The requests of the model *)
SignatureValues ==
    { Str(s) : s \in {"S1", "S2", "short86", "long89", "zero88", ""} }
        \cup {Undefined, Num(7)}
ReceiverValues == {Str("R"), Undefined}
\* 0.30 and 0.50 USDC, and zero
AmountValues == {Num(3000000), Num(5000000), Num(0)}

Requests ==
    { [method |-> "POST", hasBody |-> TRUE, signature |-> sg, receiver |-> rc,
       amount |-> am, buyer |-> Str("B")] :
        sg \in SignatureValues, rc \in ReceiverValues, am \in AmountValues }
    \cup
    { [method |-> m, hasBody |-> TRUE, signature |-> Str("S1"), receiver |-> Str("R"),
       amount |-> Num(3000000), buyer |-> Undefined] :
        m \in {"POST", "GET", "OPTIONS"} }
    \cup
    \* a POST without a body
    { [method |-> "POST", hasBody |-> FALSE, signature |-> Undefined,
       receiver |-> Undefined, amount |-> Undefined, buyer |-> Undefined] }

(* The ledger: S1 pays 0.30 USDC to R, S2 failed on-chain.  A transaction is *)
(* not found until it is confirmed and never changes afterwards.             *)
PaidTx ==
    [meta |-> [err |-> None,
               preTokenBalances |-> <<>>,
               postTokenBalances |->
                   << [accountIndex |-> 1, mint |-> USDC_MINT, owner |-> "R",
                       ui |-> <<3000000>>] >>],
     feePayer |-> "B"]
FailedTx == [meta |-> [err |-> "InstructionError"], feePayer |-> "B"]
Confirmed == [s \in {"S1", "S2"} |-> IF s = "S1" THEN PaidTx ELSE FailedTx]

\* ticks of the clock
MaxNow == 2
\* repeated verifications of one payment that are counted
MaxRepeat == 2
Min(a, b) == IF a < b THEN a ELSE b

ServerRest ==
    /\ chain = [s \in {"S1", "S2"} |-> null]
    /\ req = NoReq
    /\ rpcLog = <<>>
    /\ response = NoResponse
    /\ last = NoLast
    /\ paymentIntents = <<>>

RefusedRequests == { r \in Requests : validateRequest(r) # NoResponse }
PassedRequests == { r \in Requests : validateRequest(r) = NoResponse }

\* handler, 209-254: a request that is answered before any fetch
RefuseRequest ==
    \E r \in RefusedRequests :
        /\ validateRequest(r) # NoResponse
        /\ req' = r
        /\ response' = validateRequest(r)
        /\ rpcLog' = <<>>
        /\ UNCHANGED <<chain, now, last, paymentIntents>>

\* handler, 256-287: getWorkingRpc, rpcCall, the verdict and its response
Verify(r, health, outcome) ==
    LET working == getWorkingRpc(health)
        fetched == rpcCall(chain, r.signature.str, outcome)
        v == verifyFetched(fetched, r.receiver.str, r.amount.num, buyerOf(r))
        call == [endpoint |-> working.url, method |-> "getTransaction", outcome |-> outcome]
    IN  /\ validateRequest(r) = NoResponse
        /\ req' = r
        /\ response' = respond(r, v)
        /\ rpcLog' = working.probes \o <<call>>
        /\ last' = IF fetched.threw THEN last
                   ELSE [key |-> keyOf(r), valid |-> v.valid,
                         reason |-> IF v.valid THEN None ELSE v.reason.text,
                         calls |-> IF last # NoLast /\ last.key = keyOf(r)
                                   THEN Min(last.calls + 1, MaxRepeat) ELSE 1]
        /\ UNCHANGED <<chain, now, paymentIntents>>

VerifyRequest ==
    \E r \in PassedRequests, health \in HealthRuns, outcome \in CallOutcomes :
        Verify(r, health, outcome)

\* the cluster confirms a transaction
ConfirmTx ==
    \E s \in DOMAIN chain :
        /\ chain[s] = null
        /\ chain' = [chain EXCEPT ![s] = Confirmed[s]]
        /\ last' = NoLast
        /\ UNCHANGED <<req, rpcLog, response, now, paymentIntents>>

\* the clock advances by a minute
TickMs == 60 * 1000
Tick ==
    /\ now < MaxNow * TickMs
    /\ now' = now + TickMs

-----------------------------------------------------------------------------
(* The create-intent endpoint, api/payment/verify.ts 299-426: the registry   *)
(* paymentIntents (313-322), cleanupExpiredIntents (325-332), handler (334-423) *)

PLATFORM_WALLET == "BRDtaRBzDb9TPoRWha3xD8SCta9U75zDsiupz2rNniaZ"
\* 384: 10 * 60 * 1000
INTENT_TTL_MS == 600000

\* The address strings of the model, their length and whether every character
\* is of the base58 alphabet.
AddrLen(a) ==
    CASE a \in {"R", "B", PLATFORM_WALLET} -> 44 [] a = "short31" -> 31
      [] a = "long45" -> 45 [] a = "zero44" -> 44 [] a = "" -> 0 [] OTHER -> 1
AddrIsBase58(a) == a # "zero44"
\* 370, 374: /^[1-9A-HJ-NP-Za-km-z]{32,44}$/.test(address)
addressFormatOk(a) == AddrIsBase58(a) /\ AddrLen(a) >= 32 /\ AddrLen(a) <= 44

IntentRefuse(status, text) == [status |-> status, error |-> text]

\* 365-367: receiver && typeof receiver === "string" ? receiver : PLATFORM_WALLET
paymentReceiverOf(r) ==
    IF Truthy(r.receiver) /\ r.receiver.type = "string" THEN r.receiver.str
    ELSE PLATFORM_WALLET

\* Mutant of validateIntent: the buyer's address format is not tested.
validateIntent_NoBuyerFormat(r) ==
    IF r.method = "OPTIONS" THEN [status |-> 200, ended |-> TRUE]
    ELSE IF r.method # "POST" THEN IntentRefuse(405, "Method not allowed")
    ELSE IF ~ r.hasBody THEN IntentRefuse(500, "Failed to create payment intent")
    ELSE IF ~ Truthy(r.agentId) \/ r.agentId.type # "string"
         THEN IntentRefuse(400, "agentId is required")
    ELSE IF r.amount.type # "number" \/ r.amount.num <= 0
         THEN IntentRefuse(400, "Valid amount is required")
    ELSE IF ~ Truthy(r.buyer) \/ r.buyer.type # "string"
         THEN IntentRefuse(400, "buyer wallet address is required")
    ELSE IF ~ addressFormatOk(paymentReceiverOf(r))
         THEN IntentRefuse(400, "Invalid receiver wallet address")
    ELSE NoResponse

\* 340-376: the checks made before the registry is touched; NoResponse when
\* the request passes
validateIntent(r) ==
    IF r.method = "OPTIONS" THEN [status |-> 200, ended |-> TRUE]
    ELSE IF r.method # "POST" THEN IntentRefuse(405, "Method not allowed")
    ELSE IF ~ r.hasBody THEN IntentRefuse(500, "Failed to create payment intent")
    ELSE IF ~ Truthy(r.agentId) \/ r.agentId.type # "string"
         THEN IntentRefuse(400, "agentId is required")
    ELSE IF r.amount.type # "number" \/ r.amount.num <= 0
         THEN IntentRefuse(400, "Valid amount is required")
    ELSE IF ~ Truthy(r.buyer) \/ r.buyer.type # "string"
         THEN IntentRefuse(400, "buyer wallet address is required")
    ELSE IF ~ addressFormatOk(paymentReceiverOf(r))
         THEN IntentRefuse(400, "Invalid receiver wallet address")
    ELSE IF ~ addressFormatOk(r.buyer.str)
         THEN IntentRefuse(400, "Invalid buyer wallet address")
    ELSE NoResponse

\* Mutant of cleanupExpiredIntents: nothing is deleted.
cleanupExpiredIntents_None(intents, t) == intents

\* 325-332: the registry without the intents whose expiresAt is before t
cleanupExpiredIntents(intents, t) ==
    [id \in { i \in DOMAIN intents : ~ (intents[i].expiresAt < t) } |-> intents[id]]

\* 382-399: the intent stored under intentId at time t
intentOf(r, intentId, t) ==
    [id |-> intentId, agentId |-> r.agentId.str, amount |-> r.amount.num,
     amountRaw |-> toRaw(r.amount.num), receiver |-> paymentReceiverOf(r),
     buyer |-> r.buyer.str, createdAt |-> t, expiresAt |-> t + INTENT_TTL_MS]

\* 404-414: the response of a created intent
intentResponse(intent) ==
    [status |-> 200, success |-> TRUE,
     paymentIntent |-> [id |-> intent.id, amount |-> intent.amount,
                        amountRaw |-> intent.amountRaw, receiver |-> intent.receiver,
                        usdcMint |-> USDC_MINT, expiresAt |-> intent.expiresAt]]

\* 382: crypto.randomBytes(16).toString("hex"); of the 2^128 values the model
\* has these, and a drawn id is taken to be none of the ids in the registry.
IntentIds == {"0a", "1b", "2c"}

\* The create-intent requests of the model: 0.30 USDC for agent a1 to the
\* creator's wallet or to the platform's, and requests that fail each check.
GoodIntent ==
    [method |-> "POST", hasBody |-> TRUE, agentId |-> Str("a1"),
     amount |-> Num(3000000), receiver |-> Str("R"), buyer |-> Str("B")]
IntentRequests ==
    { [GoodIntent EXCEPT !.receiver = rc] : rc \in {Str("R"), Undefined, Num(5)} }
    \cup { [GoodIntent EXCEPT !.agentId = a] : a \in {Undefined, Str(""), Num(1)} }
    \cup { [GoodIntent EXCEPT !.amount = am] : am \in {Num(0), Num(-1), Str("0.3")} }
    \cup { [GoodIntent EXCEPT !.buyer = b] :
                b \in {Undefined, Num(1), Str("short31"), Str("long45"), Str("zero44")} }
    \cup { [GoodIntent EXCEPT !.receiver = Str(rc)] : rc \in {"short31", "zero44"} }
    \cup { [GoodIntent EXCEPT !.method = m] : m \in {"GET", "OPTIONS"} }
    \cup { [GoodIntent EXCEPT !.hasBody = FALSE] }

\* handler, 334-423
createIntent(r) ==
    LET refused == validateIntent(r)
        kept == cleanupExpiredIntents(paymentIntents, now)
    IN  /\ req' = r
        /\ IF refused # NoResponse
           THEN /\ response' = refused
                /\ UNCHANGED paymentIntents
           ELSE \E intentId \in IntentIds \ DOMAIN kept :
                    /\ paymentIntents' =
                           [id \in DOMAIN kept \cup {intentId} |->
                               IF id = intentId THEN intentOf(r, intentId, now)
                               ELSE kept[id]]
                    /\ response' = intentResponse(intentOf(r, intentId, now))
        /\ UNCHANGED <<chain, rpcLog, last, now>>

\* the clock of the registry advances by five minutes
IntentTickMs == 5 * 60 * 1000
MaxIntentTicks == 4
IntentTick ==
    /\ now < MaxIntentTicks * IntentTickMs
    /\ now' = now + IntentTickMs

-----------------------------------------------------------------------------
(* The session store, src/App.tsx 416-482.  localStorage is taken to work: *)
(* getItem, setItem and removeItem do not throw, and the items under the     *)
(* echo_session_ keys are the ones saveSession wrote.                        *)

\* JSON.stringify of a session and JSON.parse of a stored item: the item is the
\* text, here the values in the order of the keys.
JSONstringify(data) == [json |-> <<data.paidAt, data.expiresAt, data.tx>>]
JSONparse(raw) == [paidAt |-> raw.json[1], expiresAt |-> raw.json[2], tx |-> raw.json[3]]

\* agent.maxDurationMinutes: undefined when the Agent has no such field, else
\* <<>> for null or <<minutes>>
maxDurationMinutesOf(agent) ==
    IF "maxDurationMinutes" \in DOMAIN agent THEN agent.maxDurationMinutes ELSE <<>>

\* Mutant of getActiveSession: the expired record is reported absent but stays stored.
getActiveSession_KeepsExpired(store, agentId, t) ==
    LET raw == store[agentId]
    IN  IF raw = null THEN [result |-> null, store |-> store]
        ELSE LET data == JSONparse(raw)
             IN  IF data.expiresAt # <<>> /\ data.expiresAt[1] # 0 /\ t > data.expiresAt[1]
                 THEN [result |-> null, store |-> store]
                 ELSE [result |-> data, store |-> store]

\* Mutant of getActiveSession: the expiry is worked out from the limit the agent
\* has now.
getActiveSession_FromConfig(store, agentId, t) ==
    LET raw == store[agentId]
        d == maxDurationMinutesOf(agents[agentId])
    IN  IF raw = null THEN [result |-> null, store |-> store]
        ELSE LET data == JSONparse(raw)
             IN  IF d # <<>> /\ d[1] > 0 /\ t > data.paidAt + d[1] * 60 * 1000
                 THEN [result |-> null, store |-> [store EXCEPT ![agentId] = null]]
                 ELSE [result |-> data, store |-> store]

\* 423-439: the result and the storage it leaves
getActiveSession(store, agentId, t) ==
    LET raw == store[agentId]
    IN  IF raw = null THEN [result |-> null, store |-> store]
        ELSE LET data == JSONparse(raw)
             IN  IF data.expiresAt # <<>> /\ data.expiresAt[1] # 0 /\ t > data.expiresAt[1]
                 THEN [result |-> null, store |-> [store EXCEPT ![agentId] = null]]
                 ELSE [result |-> data, store |-> store]

\* Mutant of saveSession: any configured duration, positive or not, sets an expiry.
saveSession_AnyDuration(store, agent, signature, t) ==
    LET d == maxDurationMinutesOf(agent)
        expiresAt == IF d # <<>> THEN <<t + d[1] * 60 * 1000>> ELSE <<>>
    IN  [store EXCEPT ![agent.id] =
            JSONstringify([paidAt |-> t, expiresAt |-> expiresAt, tx |-> signature])]

\* 442-458: the storage after saveSession(agent, tx) at time t
saveSession(store, agent, signature, t) ==
    LET d == maxDurationMinutesOf(agent)
        expiresAt == IF d # <<>> /\ d[1] # 0 /\ d[1] > 0
                     THEN <<t + d[1] * 60 * 1000>> ELSE <<>>
    IN  [store EXCEPT ![agent.id] =
            JSONstringify([paidAt |-> t, expiresAt |-> expiresAt, tx |-> signature])]

\* Mutant of clearSession: the whole storage is emptied.
clearSession_All(store, agentId) == [id \in DOMAIN store |-> null]

\* 461-466
clearSession(store, agentId) == [store EXCEPT ![agentId] = null]

\* The latest call of the store: its arguments, the item it found under the
\* key, and what it returned.
NoCall == [fn |-> "none"]
GetCall(agentId, raw, result) ==
    [fn |-> "getActiveSession", id |-> agentId, raw |-> raw, result |-> result]
SaveCall(agent, signature) ==
    [fn |-> "saveSession", id |-> agent.id, agent |-> agent, tx |-> signature]
ClearCall(agentId) == [fn |-> "clearSession", id |-> agentId]

-----------------------------------------------------------------------------
(* verifyPaymentOnChain, src/App.tsx 485-563 *)

\* the literal of the client's tolerance test, in raw units
CLIENT_TOLERANCE_RAW == 100

ClientNotFound == "Transaction not found on blockchain"
ClientNoMeta == "Transaction metadata not available"
ClientFailed == "Transaction failed: "
ClientNoTransfer == "No USDC transfer found to recipient"
ClientAmountMismatch == "Amount mismatch: expected  USDC, got "
ClientCaught == "Verification failed"

\* getAssociatedTokenAddress(USDC_MINT, owner).toString(): the address of the
\* owner's token account, never the owner's own address
getAssociatedTokenAddress(owner) == "ATA/" \o owner

\* 528-543: the loop over postTokenBalances, <<foundTransfer, diff>>
RECURSIVE scanPayment(_, _, _, _)
scanPayment(preBalances, postBalances, recipientATA, i) ==
    IF i > Len(postBalances) THEN <<FALSE, 0>>
    ELSE LET post == postBalances[i]
             diff == parseUiAmount(post) - preAmountOf(preBalances, post)
         IN  IF post.owner = recipientATA /\ post.mint = USDC_MINT /\ diff > 0
             THEN <<TRUE, diff>>
             ELSE scanPayment(preBalances, postBalances, recipientATA, i + 1)

\* fetched: what getTransaction did, [threw |-> TRUE] or [threw |-> FALSE, tx |-> t]
verifyPaymentOnChain(fetched, recipient, amountUsdc) ==
    IF fetched.threw THEN [valid |-> FALSE, reason |-> ClientCaught]
    ELSE IF fetched.tx = null THEN [valid |-> FALSE, reason |-> ClientNotFound]
    ELSE IF fetched.tx.meta = null THEN [valid |-> FALSE, reason |-> ClientNoMeta]
    ELSE IF fetched.tx.meta.err # None THEN [valid |-> FALSE, reason |-> ClientFailed]
    ELSE LET found == scanPayment(preBalancesOf(fetched.tx.meta),
                                  postBalancesOf(fetched.tx.meta),
                                  getAssociatedTokenAddress(recipient), 1)
         IN  IF ~ found[1] THEN [valid |-> FALSE, reason |-> ClientNoTransfer]
             ELSE IF Abs(toRaw(found[2]) - toRaw(amountUsdc)) > CLIENT_TOLERANCE_RAW
                  THEN [valid |-> FALSE, reason |-> ClientAmountMismatch]
                  ELSE [valid |-> TRUE, reason |-> None]

-----------------------------------------------------------------------------
(* The agents, the wallets and the ledger SpecClient draws from *)

BuyerKey == "Buyr1111Buyr1111"
CreatorKey == "Crea2222Crea2222"
SellerKey == "Sell3333Sell3333"
WalletKeys == {BuyerKey, CreatorKey}

\* 229: shorten(pk), the first four and the last four characters
shorten(pk) ==
    CASE pk = "" -> ""
      [] pk = BuyerKey -> "Buyr...1111"
      [] pk = CreatorKey -> "Crea...2222"
      [] pk = SellerKey -> "Sell...3333"

AgentIds == {"a1", "a2", "a3", "tts-agent"}

\* a1 was created by CreatorKey with a duration limit; a2 by a wallet that is not
\* here, without the field; a3 without a wallet (1502-1503); tts-agent is built in.
InitialAgents ==
    [id \in AgentIds |->
        CASE id = "a1" -> [id |-> id, creator |-> shorten(CreatorKey),
                           creatorWallet |-> CreatorKey, priceUSDC |-> 3000000,
                           maxDurationMinutes |-> <<1>>]
          [] id = "a2" -> [id |-> id, creator |-> shorten(SellerKey),
                           creatorWallet |-> SellerKey, priceUSDC |-> 5000000]
          [] id = "a3" -> [id |-> id, creator |-> "local",
                           creatorWallet |-> None, priceUSDC |-> 2000000]
          [] OTHER -> [id |-> id, creator |-> None,
                       creatorWallet |-> None, priceUSDC |-> 0]]

\* what the edit form can hold: 0.30 or 0.50 USDC; no limit, 0, -1, 1 or 2 minutes
FormPrices == {3000000, 5000000}
FormDurations == {<<>>, <<0>>, <<-1>>, <<1>>, <<2>>}

Signatures == {"S1", "S2"}

\* A transaction that raises one USDC token account by amount; owner is the
\* owner field of that account's balance entry.
transferTx(owner, amount) ==
    [meta |-> [err |-> None,
               preTokenBalances |->
                   << [accountIndex |-> 1, mint |-> USDC_MINT, ui |-> <<100000>>] >>,
               postTokenBalances |->
                   << [accountIndex |-> 1, mint |-> USDC_MINT, owner |-> owner,
                       ui |-> <<100000 + amount>>] >>],
     feePayer |-> BuyerKey]

\* What getTransaction can answer for the signature the wallet returned: an
\* exception, nothing yet, a failed transaction, the transfer handlePay built
\* (the balance entry of the recipient's token account names the recipient as
\* owner), and transfers to a token account whose owner field is the address of
\* the recipient's associated token account, of the price and of 0.0002 USDC less.
Fetches(recipient, amount) ==
    { [threw |-> TRUE] }
    \cup
    { [threw |-> FALSE, tx |-> t] :
        t \in { null, FailedTx,
                transferTx(recipient, amount),
                transferTx(getAssociatedTokenAddress(recipient), amount),
                transferTx(getAssociatedTokenAddress(recipient), amount - 2000) } }

\* handlePay invocations in flight that the model follows at a time
MaxAttempts == 2

-----------------------------------------------------------------------------
(* The pay modal and the payment attempts, src/App.tsx *)

NoVerdictYet == [none |-> "paid"]

\* 311: the routes the handlers give to push
HomeRoute == "/"
ChatRoute(id) == "/chat?id=" \o id

\* What a handler step met and did besides its state updates: the answer of
\* the wallet or of the RPC it awaited, the alert it raised, the route it pushed.
NoAnswer == [kind |-> "none"]
SignedAnswer(sig) == [kind |-> "signed", signature |-> sig]
ErrorAnswer(e) == [kind |-> "error", code |-> e.code, message |-> e.message]
VerdictAnswer(verification) ==
    [kind |-> "verdict", valid |-> verification.valid, reason |-> verification.reason]
IO(answer, alert, pushed) == [answer |-> answer, alert |-> alert, pushed |-> pushed]
NoIO == IO(NoAnswer, None, None)

\* 3726: the error handlePay makes of a failed getLatestBlockhash
PrepareError == [code |-> 0, message |-> "Failed to prepare transaction: RPC unavailable"]

\* what signAndSendTransaction rejects with: the user's refusal by code, by
\* either message, and a failed simulation
SignErrors ==
    { [code |-> 4001, message |-> ""],
      [code |-> 0, message |-> "User rejected the request."],
      [code |-> 0, message |-> "User cancelled"],
      [code |-> -32003, message |-> "Transaction simulation failed: insufficient funds"] }

\* message.includes(part), for the messages above and the parts handlePay asks for
includes(message, part) ==
    part \in (CASE message = "User rejected the request." -> {"User rejected"}
               [] message = "User cancelled" -> {"User cancelled"}
               [] message = "Transaction simulation failed: insufficient funds" ->
                      {"insufficient funds"}
               [] message = "Failed to prepare transaction: RPC unavailable" -> {"RPC"}
               [] OTHER -> {})

\* 3740-3742: the test of the catch around signAndSendTransaction
isUserRejection(signError) ==
    \/ signError.code = 4001
    \/ includes(signError.message, "User rejected")
    \/ includes(signError.message, "User cancelled")

AlertNoWallet == "This agent has no payout wallet configured. Payment is disabled."
AlertVerification(reason) ==
    "Payment verification failed: " \o (IF reason = None \/ reason = "" THEN "Unknown error" ELSE reason)

\* 3773, 3779-3791: the alert of handlePay's outer catch, None when it is silent
catchAlert(e) ==
    LET errorMsg == IF e.message = "" THEN "Unknown error" ELSE e.message
    IN  IF includes(errorMsg, "User rejected") \/ includes(errorMsg, "User cancelled")
           \/ includes(errorMsg, "4001")
        THEN None
        ELSE IF includes(errorMsg, "403") \/ includes(errorMsg, "Access forbidden")
                \/ includes(errorMsg, "RPC")
        THEN "RPC provider error. Transaction may have been sent - please check your wallet."
        ELSE IF includes(errorMsg, "insufficient funds") \/ includes(errorMsg, "0x1")
        THEN "Insufficient USDC balance. Please check your wallet."
        ELSE IF includes(errorMsg, "Buffer is not defined")
        THEN "Buffer polyfill error. Please refresh the page."
        ELSE "USDC payment failed: " \o errorMsg

\* selected?.id
idOf(agent) == IF agent = null THEN None ELSE agent.id

\* 915-918: the effect on [selected?.id] puts the modal state back to "idle"
\* after a render in which the selected id changed
afterRender(nextSelected, nextModalState) ==
    IF idOf(nextSelected) # idOf(selected) THEN "idle" ELSE nextModalState

\* 3232: the modal is rendered
modalShown == payModalOpen /\ selected # null

\* 3358, 3402: the branches that render PhantomPayButton, "ready" and the fallback
payButtonShown ==
    /\ modalShown
    /\ connected
    /\ modalState \notin {"creator_free", "free", "missing_payout_wallet", "paid",
                          "processing", "error"}

ClientRest ==
    /\ agents = InitialAgents
    /\ editingAgentId = None
    /\ connected = FALSE
    /\ address = None
    /\ walletPk = None
    /\ selected = null
    /\ payModalOpen = FALSE
    /\ modalState = "idle"
    /\ attempts = EmptyBag
    /\ storage = [id \in AgentIds |-> null]
    /\ storeCall = NoCall
    /\ paid = [id \in AgentIds |-> NoVerdictYet]
    /\ io = NoIO
    /\ chat = [open |-> FALSE]
    /\ chatStore = [id \in AgentIds |-> null]
    /\ sentSincePaid = [id \in AgentIds |-> 0]

\* 755-760: onConnect, also from accountChanged and connectPhantom
onConnect ==
    \E key \in WalletKeys :
        /\ walletPk # key
        /\ connected' = TRUE
        /\ walletPk' = key
        /\ address' = shorten(key)
        /\ io' = NoIO
        /\ UNCHANGED <<agents, editingAgentId, modalVars, attempts, storeVars, paid, now>>

\* 761-765: onDisconnect, also disconnectPhantom
onDisconnect ==
    /\ connected
    /\ connected' = FALSE
    /\ address' = None
    /\ walletPk' = None
    /\ io' = NoIO
    /\ UNCHANGED <<agents, editingAgentId, modalVars, attempts, storeVars, paid, now>>

\* Mutant of openPay: an active session does not keep the modal from opening.
openPay_NoBypass(id) ==
    LET agent == agents[id]
        active == getActiveSession(storage, id, now)
        isFreeAgent == agent.creator = None /\ agent.creatorWallet = None
        initial == IF isFreeAgent THEN "free"
                   ELSE IF agent.creatorWallet = None THEN "missing_payout_wallet"
                   ELSE "ready"
    IN  /\ selected' = agent
        /\ IF connected /\ agent.creator # None /\ address = agent.creator
           THEN /\ payModalOpen' = FALSE
                /\ modalState' = afterRender(agent, modalState)
                /\ io' = IO(NoAnswer, None, ChatRoute(id))
                /\ UNCHANGED storeVars
           ELSE /\ storage' = active.store
                /\ UNCHANGED storeCall
                /\ payModalOpen' = TRUE
                /\ modalState' = afterRender(agent, initial)
                /\ io' = IO(NoAnswer, None, HomeRoute)
        /\ UNCHANGED <<agents, editingAgentId, walletVars, attempts, paid, now>>

\* Mutant of openPay: the creator is shown the modal in "creator_free".
openPay_CreatorModal(id) ==
    LET agent == agents[id]
        active == getActiveSession(storage, id, now)
        isFreeAgent == agent.creator = None /\ agent.creatorWallet = None
        initial == IF isFreeAgent THEN "free"
                   ELSE IF agent.creatorWallet = None THEN "missing_payout_wallet"
                   ELSE "ready"
    IN  /\ selected' = agent
        /\ IF connected /\ agent.creator # None /\ address = agent.creator
           THEN /\ payModalOpen' = TRUE
                /\ modalState' = "creator_free"
                /\ io' = IO(NoAnswer, None, HomeRoute)
                /\ UNCHANGED storeVars
           ELSE /\ storage' = active.store
                /\ UNCHANGED storeCall
                /\ IF active.result # null
                   THEN /\ payModalOpen' = FALSE
                        /\ modalState' = afterRender(agent, modalState)
                        /\ io' = IO(NoAnswer, None, ChatRoute(id))
                   ELSE /\ payModalOpen' = TRUE
                        /\ modalState' = afterRender(agent, initial)
                        /\ io' = IO(NoAnswer, None, HomeRoute)
        /\ UNCHANGED <<agents, editingAgentId, walletVars, attempts, paid, now>>

\* 1310-1368
openPay(id) ==
    LET agent == agents[id]
        active == getActiveSession(storage, id, now)
        isFreeAgent == agent.creator = None /\ agent.creatorWallet = None
        initial == IF isFreeAgent THEN "free"
                   ELSE IF agent.creatorWallet = None THEN "missing_payout_wallet"
                   ELSE "ready"
    IN  /\ selected' = agent
        /\ IF connected /\ agent.creator # None /\ address = agent.creator
           THEN /\ payModalOpen' = FALSE
                /\ modalState' = afterRender(agent, modalState)
                /\ io' = IO(NoAnswer, None, ChatRoute(id))
                /\ UNCHANGED storeVars
           ELSE /\ storage' = active.store
                /\ UNCHANGED storeCall
                /\ IF active.result # null
                   THEN /\ payModalOpen' = FALSE
                        /\ modalState' = afterRender(agent, modalState)
                        /\ io' = IO(NoAnswer, None, ChatRoute(id))
                   ELSE /\ payModalOpen' = TRUE
                        /\ modalState' = afterRender(agent, initial)
                        /\ io' = IO(NoAnswer, None, HomeRoute)
        /\ UNCHANGED <<agents, editingAgentId, walletVars, attempts, paid, now>>

\* 1370-1379
closePay ==
    /\ modalShown
    /\ payModalOpen' = FALSE
    /\ selected' = null
    /\ modalState' = "idle"
    /\ io' = NoIO
    /\ UNCHANGED <<agents, editingAgentId, walletVars, attempts, storeVars, paid, now>>

\* 1270-1303, from the Start Chat buttons of the modal (3286, 3299, 3327)
startChat ==
    /\ modalShown
    /\ connected
    /\ modalState \in {"creator_free", "free", "paid"}
    /\ payModalOpen' = FALSE
    /\ modalState' = "idle"
    /\ selected' = null
    /\ io' = IO(NoAnswer, None, ChatRoute(selected.id))
    /\ UNCHANGED <<agents, editingAgentId, walletVars, attempts, storeVars, paid, now>>

\* 3353: Try Again
tryAgain ==
    /\ modalShown
    /\ connected
    /\ modalState = "error"
    /\ modalState' = "ready"
    /\ io' = NoIO
    /\ UNCHANGED <<agents, editingAgentId, walletVars, selected, payModalOpen,
                   attempts, storeVars, paid, now>>

\* 3021-3024: Resume Session, on a card of getAllActiveSessions
resumeSession(id) ==
    /\ ~ modalShown
    /\ storage[id] # null
    /\ selected' = agents[id]
    /\ modalState' = afterRender(agents[id], modalState)
    /\ io' = IO(NoAnswer, None, ChatRoute(id))
    /\ UNCHANGED <<agents, editingAgentId, walletVars, payModalOpen, attempts,
                   storeVars, paid, now>>

\* 3636-3678: a click on Pay with USDC, up to the first await.  The callbacks
\* of the invocation close over the selected of the render clicked on (its
\* walletPk is set, the button being shown to a connected wallet only, and the
\* verifier does not read it).  The provider of a connected wallet has its
\* publicKey, so a missing recipient is answered before any await: onProcessing
\* and onError in one batch.
handlePay ==
    /\ payButtonShown
    /\ BagCardinality(attempts) < MaxAttempts
    /\ IF selected.creatorWallet = None
       THEN /\ modalState' = "error"
            /\ io' = IO(NoAnswer, AlertNoWallet, None)
            /\ UNCHANGED attempts
       ELSE /\ modalState' = "processing"
            /\ io' = NoIO
            /\ attempts' = attempts (+) SetToBag({[agent |-> selected, pc |-> "wallet",
                                                  signature |-> None]})
    /\ UNCHANGED <<agents, editingAgentId, walletVars, selected, payModalOpen,
                   storeVars, paid, now>>

\* Mutant of handlePayFails: the inner catch rethrows the user's refusal too,
\* so that every failure is answered by the outer catch.
handlePayFails_RethrowsAll ==
    \E att \in BagToSet(attempts), e \in SignErrors \cup {PrepareError} :
        /\ att.pc = "wallet"
        /\ attempts' = attempts (-) SetToBag({att})
        /\ modalState' = "error"
        /\ io' = IO(ErrorAnswer(e), catchAlert(e), None)
        /\ UNCHANGED <<agents, editingAgentId, walletVars, selected, payModalOpen,
                       storeVars, paid, now>>

\* 3720-3727, 3735-3748, 3770-3793: getLatestBlockhash fails or the wallet
\* rejects.  The user's refusal ends the invocation in the inner catch, onError
\* and no alert; any other error reaches the outer catch, onError and its alert.
handlePayFails ==
    \E att \in BagToSet(attempts), e \in SignErrors \cup {PrepareError} :
        /\ att.pc = "wallet"
        /\ attempts' = attempts (-) SetToBag({att})
        /\ modalState' = "error"
        /\ io' = IO(ErrorAnswer(e),
                    IF e \in SignErrors /\ isUserRejection(e) THEN None ELSE catchAlert(e),
                    None)
        /\ UNCHANGED <<agents, editingAgentId, walletVars, selected, payModalOpen,
                       storeVars, paid, now>>

\* Mutant of handlePaySigned: onSuccess returns at once, as it does without
\* selected or walletPk, and the invocation ends with the modal as it is.
handlePaySigned_ReturnsEarly ==
    \E att \in BagToSet(attempts), sig \in Signatures :
        /\ att.pc = "wallet"
        /\ attempts' = attempts (-) SetToBag({att})
        /\ io' = IO(SignedAnswer(sig), None, None)
        /\ UNCHANGED <<agents, editingAgentId, walletVars, modalVars, storeVars, paid, now>>

\* 3735-3768 and 3366-3374: the wallet returned a signature; onSuccess(sig)
\* starts the verification
handlePaySigned ==
    \E att \in BagToSet(attempts), sig \in Signatures :
        /\ att.pc = "wallet"
        /\ attempts' = (attempts (-) SetToBag({att}))
                        (+) SetToBag({[att EXCEPT !.pc = "verify", !.signature = sig]})
        /\ io' = IO(SignedAnswer(sig), None, None)
        /\ UNCHANGED <<agents, editingAgentId, walletVars, modalVars, storeVars, paid, now>>

\* the verdict of the verifier enters the history when it is valid
verdictNoted(att, verification) ==
    IF verification.valid
    THEN [paid EXCEPT ![att.agent.id] =
             [receiver |-> att.agent.creatorWallet, amount |-> att.agent.priceUSDC,
              signature |-> att.signature, valid |-> verification.valid]]
    ELSE paid

\* Mutant of onSuccessVerified: the session is saved whatever the verdict is.
onSuccessVerified_SavesAnyway ==
    \E att \in BagToSet(attempts) :
        /\ att.pc = "verify"
        /\ \E fetched \in Fetches(att.agent.creatorWallet, att.agent.priceUSDC) :
            LET verification == verifyPaymentOnChain(fetched, att.agent.creatorWallet,
                                                     att.agent.priceUSDC)
            IN  /\ paid' = verdictNoted(att, verification)
                /\ storage' = saveSession(storage, att.agent, att.signature, now)
                /\ modalState' = "paid"
                /\ io' = IO(VerdictAnswer(verification), None, None)
        /\ attempts' = attempts (-) SetToBag({att})
        /\ UNCHANGED <<agents, editingAgentId, walletVars, selected, payModalOpen,
                       storeCall, now>>

\* Mutant of onSuccessVerified: the modal shows the payment as made whatever
\* the verdict is; the session is saved on a valid verdict only.
onSuccessVerified_PaidAnyway ==
    \E att \in BagToSet(attempts) :
        /\ att.pc = "verify"
        /\ \E fetched \in Fetches(att.agent.creatorWallet, att.agent.priceUSDC) :
            LET verification == verifyPaymentOnChain(fetched, att.agent.creatorWallet,
                                                     att.agent.priceUSDC)
            IN  /\ paid' = verdictNoted(att, verification)
                /\ modalState' = "paid"
                /\ io' = IO(VerdictAnswer(verification), None, None)
                /\ storage' = IF verification.valid
                              THEN saveSession(storage, att.agent, att.signature, now)
                              ELSE storage
        /\ attempts' = attempts (-) SetToBag({att})
        /\ UNCHANGED <<agents, editingAgentId, walletVars, selected, payModalOpen,
                       storeCall, now>>

\* Mutant of onSuccessVerified: the session is saved for the agent the modal is
\* on when the verdict arrives, and for none when no agent is selected.
onSuccessVerified_SavesSelected ==
    \E att \in BagToSet(attempts) :
        /\ att.pc = "verify"
        /\ \E fetched \in Fetches(att.agent.creatorWallet, att.agent.priceUSDC) :
            LET verification == verifyPaymentOnChain(fetched, att.agent.creatorWallet,
                                                     att.agent.priceUSDC)
            IN  /\ paid' = verdictNoted(att, verification)
                /\ IF ~ verification.valid
                   THEN /\ modalState' = "error"
                        /\ io' = IO(VerdictAnswer(verification),
                                    AlertVerification(verification.reason), None)
                        /\ UNCHANGED storage
                   ELSE /\ storage' = IF modalShown
                                      THEN saveSession(storage, selected, att.signature, now)
                                      ELSE storage
                        /\ modalState' = "paid"
                        /\ io' = IO(VerdictAnswer(verification), None, None)
        /\ attempts' = attempts (-) SetToBag({att})
        /\ UNCHANGED <<agents, editingAgentId, walletVars, selected, payModalOpen,
                       storeCall, now>>

\* 3369-3386, 3413-3429: verifyPaymentOnChain resolved; the rest of onSuccess
onSuccessVerified ==
    \E att \in BagToSet(attempts) :
        /\ att.pc = "verify"
        /\ \E fetched \in Fetches(att.agent.creatorWallet, att.agent.priceUSDC) :
            LET verification == verifyPaymentOnChain(fetched, att.agent.creatorWallet,
                                                     att.agent.priceUSDC)
            IN  /\ paid' = verdictNoted(att, verification)
                /\ IF ~ verification.valid
                   THEN /\ modalState' = "error"
                        /\ io' = IO(VerdictAnswer(verification),
                                    AlertVerification(verification.reason), None)
                        /\ UNCHANGED storage
                   ELSE /\ storage' = saveSession(storage, att.agent, att.signature, now)
                        /\ modalState' = "paid"
                        /\ io' = IO(VerdictAnswer(verification), None, None)
        /\ attempts' = attempts (-) SetToBag({att})
        /\ UNCHANGED <<agents, editingAgentId, walletVars, selected, payModalOpen,
                       storeCall, now>>

\* 1425-1432, from the profile's list of the agents the address created (6068)
startEdit(id) ==
    /\ agents[id].creator # None
    /\ address # None
    /\ agents[id].creator = address
    /\ editingAgentId' = id
    /\ io' = NoIO
    /\ UNCHANGED <<agents, walletVars, modalVars, attempts, storeVars, paid, now>>

\* 1434-1460
cancelCreate ==
    /\ editingAgentId # None
    /\ editingAgentId' = None
    /\ io' = NoIO
    /\ UNCHANGED <<agents, walletVars, modalVars, attempts, storeVars, paid, now>>

\* 1462-1487: submitCreate in edit mode; the form gives the price and the limit
submitCreate ==
    /\ editingAgentId # None
    /\ \E priceUSDC \in FormPrices, minutes \in FormDurations :
        agents' = [agents EXCEPT ![editingAgentId] =
                      [id |-> @.id, creator |-> @.creator, creatorWallet |-> @.creatorWallet,
                       priceUSDC |-> priceUSDC, maxDurationMinutes |-> minutes]]
    /\ editingAgentId' = None
    /\ io' = NoIO
    /\ UNCHANGED <<walletVars, modalVars, attempts, storeVars, paid, now>>

\* 469-482, 3189: a render reads the session of an agent
readSession(id) ==
    LET active == getActiveSession(storage, id, now)
    IN  /\ storage' = active.store
        /\ io' = NoIO
        /\ UNCHANGED <<agents, editingAgentId, walletVars, modalVars, attempts, storeCall, paid, now>>

\* 5246-5258
goBuyNewSession(id) ==
    /\ storage' = clearSession(storage, id)
    /\ io' = NoIO
    /\ UNCHANGED <<agents, editingAgentId, walletVars, modalVars, attempts, storeCall, paid, now>>

-----------------------------------------------------------------------------
(* SpecVerify: one call of verifyTransactionOnChain on every transaction and *)
(* expected payment of the model                                             *)

VerifyRest ==
    /\ tx = null
    /\ expectedReceiver = "R"
    /\ expectedAmount = 0
    /\ expectedBuyer = None
    /\ verdict = NoVerdict

InitVerify ==
    /\ tx \in Transactions \cup {null}
    /\ expectedReceiver \in {"R"}
    /\ expectedAmount \in ExpectedAmounts
    /\ expectedBuyer \in {None}
    /\ verdict = NoVerdict
    /\ now = 0
    /\ ServerRest
    /\ ClientRest

CallVerify ==
    /\ verdict = NoVerdict
    /\ verdict' = verifyTransactionOnChain(tx, expectedReceiver, expectedAmount, expectedBuyer)
    /\ UNCHANGED <<tx, expectedReceiver, expectedAmount, expectedBuyer, now, serverVars, clientVars>>

NextVerify == CallVerify

SpecVerify == InitVerify /\ [][NextVerify]_vars

(* SpecVerifyRpc: one call of verifyTransactionOnChain with its getTransaction *)
(* fetch, for every transaction the cluster may hold under the signature,    *)
(* every buyer argument and every outcome of the fetch                       *)

\* the expectedBuyer argument: absent, the fee payer of the transactions, another
Buyers == {None, "B", "X"}

InitVerifyRpc ==
    /\ tx \in Transactions \cup {null}
    /\ expectedReceiver \in {"R"}
    /\ expectedAmount \in ExpectedAmounts
    /\ expectedBuyer \in Buyers
    /\ verdict = NoVerdict
    /\ now = 0
    /\ ServerRest
    /\ ClientRest

\* 85-93: what getTransaction of the signature gives under the outcome
fetchOf(outcome) == rpcCall([s \in {"S1"} |-> tx], "S1", outcome)

CallVerifyRpc ==
    \E health \in HealthRuns, outcome \in CallOutcomes :
        LET working == getWorkingRpc(health)
            call == [endpoint |-> working.url, method |-> "getTransaction",
                     outcome |-> outcome]
        IN  /\ verdict = NoVerdict
            /\ verdict' = verifyFetched(fetchOf(outcome), expectedReceiver,
                                         expectedAmount, expectedBuyer)
            /\ rpcLog' = working.probes \o <<call>>
            /\ UNCHANGED <<tx, expectedReceiver, expectedAmount, expectedBuyer, now,
                           chain, req, response, last, paymentIntents, clientVars>>

NextVerifyRpc == CallVerifyRpc

SpecVerifyRpc == InitVerifyRpc /\ [][NextVerifyRpc]_vars

(* SpecServer: requests to the verify endpoint and the ledger *)

InitServer ==
    /\ VerifyRest
    /\ now = 0
    /\ ServerRest
    /\ ClientRest

NextServer ==
    \/ RefuseRequest /\ UNCHANGED <<verifyVars, clientVars>>
    \/ VerifyRequest /\ UNCHANGED <<verifyVars, clientVars>>
    \/ ConfirmTx /\ UNCHANGED <<verifyVars, clientVars>>

SpecServer == InitServer /\ [][NextServer]_vars

(* SpecIntent: create-intent requests and the clock *)

InitIntent ==
    /\ VerifyRest
    /\ now = 0
    /\ ServerRest
    /\ ClientRest

NextIntent ==
    \/ \E r \in IntentRequests : createIntent(r) /\ UNCHANGED <<verifyVars, clientVars>>
    \/ IntentTick /\ UNCHANGED <<verifyVars, serverVars, clientVars>>

SpecIntent == InitIntent /\ [][NextIntent]_vars

(* SpecClient: the pay modal, the payment attempts, the session store, the *)
(* edit form and the clock                                                  *)

InitClient ==
    /\ VerifyRest
    /\ now = 0
    /\ ServerRest
    /\ ClientRest

NextClient ==
    \/ onConnect /\ UNCHANGED <<verifyVars, serverVars, chatVars>>
    \/ onDisconnect /\ UNCHANGED <<verifyVars, serverVars, chatVars>>
    \/ (\E id \in AgentIds : openPay(id)) /\ UNCHANGED <<verifyVars, serverVars, chatVars>>
    \/ closePay /\ UNCHANGED <<verifyVars, serverVars, chatVars>>
    \/ startChat /\ UNCHANGED <<verifyVars, serverVars, chatVars>>
    \/ tryAgain /\ UNCHANGED <<verifyVars, serverVars, chatVars>>
    \/ (\E id \in AgentIds : resumeSession(id)) /\ UNCHANGED <<verifyVars, serverVars, chatVars>>
    \/ handlePay /\ UNCHANGED <<verifyVars, serverVars, chatVars>>
    \/ handlePayFails /\ UNCHANGED <<verifyVars, serverVars, chatVars>>
    \/ handlePaySigned /\ UNCHANGED <<verifyVars, serverVars, chatVars>>
    \/ onSuccessVerified /\ UNCHANGED <<verifyVars, serverVars, chatVars>>
    \/ (\E id \in AgentIds : readSession(id)) /\ UNCHANGED <<verifyVars, serverVars, chatVars>>
    \/ (\E id \in AgentIds : goBuyNewSession(id)) /\ UNCHANGED <<verifyVars, serverVars, chatVars>>
    \/ Tick /\ UNCHANGED <<verifyVars, serverVars, clientVars>>

SpecClient == InitClient /\ [][NextClient]_vars

(* SpecClientLive: SpecClient with every awaited call of a handlePay        *)
(* invocation returning or failing: the wallet's answer (3735) and the      *)
(* verifier's, whose getTransaction is awaited inside a try (499-562)       *)

AttemptStep ==
    (handlePayFails \/ handlePaySigned \/ onSuccessVerified)
        /\ UNCHANGED <<verifyVars, serverVars, chatVars>>

SpecClientLive == SpecClient /\ WF_vars(AttemptStep)

(* SpecStore: the session store under the calls App makes of it, the edit *)
(* form and the clock                                                      *)

\* the agents whose payment can be verified, having a payout wallet
PayableIds == { id \in AgentIds : InitialAgents[id].creatorWallet # None }

\* 3385, 3428: saveSession(selected, sig)
saveSessionCall ==
    \E id \in PayableIds, sig \in Signatures :
        /\ storage' = saveSession(storage, agents[id], sig, now)
        /\ storeCall' = SaveCall(agents[id], sig)
        /\ UNCHANGED <<agents, editingAgentId, walletVars, modalVars, attempts, paid, io, now>>

\* 1336, 2974, 3189: getActiveSession(agent.id)
getActiveSessionCall ==
    \E id \in AgentIds :
        LET active == getActiveSession(storage, id, now)
        IN  /\ storage' = active.store
            /\ storeCall' = GetCall(id, storage[id], active.result)
            /\ UNCHANGED <<agents, editingAgentId, walletVars, modalVars, attempts, paid, io, now>>

\* 5251: clearSession(selectedAgent.id)
clearSessionCall ==
    \E id \in AgentIds :
        /\ storage' = clearSession(storage, id)
        /\ storeCall' = ClearCall(id)
        /\ UNCHANGED <<agents, editingAgentId, walletVars, modalVars, attempts, paid, io, now>>

InitStore == InitClient

NextStore ==
    \/ saveSessionCall /\ UNCHANGED <<verifyVars, serverVars, chatVars>>
    \/ getActiveSessionCall /\ UNCHANGED <<verifyVars, serverVars, chatVars>>
    \/ clearSessionCall /\ UNCHANGED <<verifyVars, serverVars, chatVars>>
    \/ onConnect /\ UNCHANGED <<verifyVars, serverVars, chatVars>>
    \/ onDisconnect /\ UNCHANGED <<verifyVars, serverVars, chatVars>>
    \/ (\E id \in AgentIds : startEdit(id)) /\ UNCHANGED <<verifyVars, serverVars, chatVars>>
    \/ cancelCreate /\ UNCHANGED <<verifyVars, serverVars, chatVars>>
    \/ submitCreate /\ UNCHANGED <<verifyVars, serverVars, chatVars>>
    \/ Tick /\ UNCHANGED <<verifyVars, serverVars, clientVars>>

SpecStore == InitStore /\ [][NextStore]_vars

-----------------------------------------------------------------------------
(* ChatView, src/App.tsx 4612-5258, and the chat route, 1614-1632.  A message *)
(* is its role; the history is the sequence of the messages.                  *)

NoChat == [open |-> FALSE]

\* the messages a history of the model may reach before send is held back
MaxMessages == 5
\* clock steps of SpecChat
MaxChatTicks == 4

\* 4884: agent.maxMessagesPerSession, <<>> for null or undefined, else <<n>>
maxMessagesPerSessionOf(agent) ==
    IF "maxMessagesPerSession" \in DOMAIN agent THEN agent.maxMessagesPerSession ELSE <<>>

\* The agents of SpecChat: a1 sells one minute, a2 sells two messages.
ChatAgents ==
    [id \in AgentIds |->
        IF id = "a2"
        THEN [id |-> id, creator |-> shorten(SellerKey), creatorWallet |-> SellerKey,
              priceUSDC |-> 5000000, maxMessagesPerSession |-> <<2>>]
        ELSE InitialAgents[id]]

\* 1621: isCreator of the chat route
isCreatorOfChat(agent) == walletPk # None /\ agent.creatorWallet = walletPk

\* 4883-4891: overMessages and overTime of the chat c
limitsOf(c) ==
    LET agent == agents[c.agentId]
        userMsgCount == Cardinality({ i \in 1 .. Len(c.messages) : c.messages[i] = "user" })
        maxMsgs == maxMessagesPerSessionOf(agent)
        maxMins == maxDurationMinutesOf(agent)
        maxSec == IF maxMins # <<>> /\ maxMins[1] # 0 THEN <<maxMins[1] * 60>> ELSE <<>>
    IN  [overMessages |-> maxMsgs # <<>> /\ userMsgCount >= maxMsgs[1],
         overTime |-> maxSec # <<>> /\ c.elapsedSec >= maxSec[1]]

\* 4894
sessionBlocked(c) ==
    ~ isCreatorOfChat(agents[c.agentId])
        /\ (limitsOf(c).overMessages \/ limitsOf(c).overTime)

\* 4723-4751: the effect of a ChatView rendered for another agent: the stored
\* history or the greeting, the timer started anew
mounted(id) ==
    [open |-> TRUE, agentId |-> id, sessionStart |-> now, elapsedSec |-> 0,
     loading |-> FALSE,
     messages |-> IF chatStore[id] # null /\ Len(chatStore[id]) > 0
                  THEN chatStore[id] ELSE <<"assistant">>]

\* openPay, from a page of the app, by the agent's creator or with an active
\* session: it pushes the chat route and ChatView is rendered for the agent,
\* 1614-1632
enterChat(id) ==
    /\ ~ chat.open
    /\ openPay(id)
    /\ io'.pushed = ChatRoute(id)
    /\ chat' = mounted(id)
    /\ UNCHANGED <<chatStore, sentSincePaid>>

\* 5020-5073: send() with a text, up to the await of the engine; syncMessages
\* 4870-4880
send ==
    /\ chat.open /\ ~ chat.loading
    /\ Len(chat.messages) < MaxMessages
    /\ LET blocked == sessionBlocked(chat)
           next == Append(chat.messages, IF blocked THEN "assistant" ELSE "user")
       IN  /\ chat' = [chat EXCEPT !.messages = next, !.loading = ~ blocked]
           /\ chatStore' = [chatStore EXCEPT ![chat.agentId] = next]
           /\ sentSincePaid' =
                  IF blocked THEN sentSincePaid
                  ELSE [sentSincePaid EXCEPT ![chat.agentId] = @ + 1]
    /\ UNCHANGED <<agents, editingAgentId, walletVars, modalVars, attempts, storeVars,
                   paid, io, now>>

\* 5075-5244: the engine answered or failed; either way an assistant message
\* is added to the history
engineReplied ==
    /\ chat.open /\ chat.loading
    /\ LET next == Append(chat.messages, "assistant")
       IN  /\ chat' = [chat EXCEPT !.messages = next, !.loading = FALSE]
           /\ chatStore' = [chatStore EXCEPT ![chat.agentId] = next]
    /\ UNCHANGED <<agents, editingAgentId, walletVars, modalVars, attempts, storeVars,
                   paid, io, now, sentSincePaid>>

\* 4766-4772: the clock advances by 20 s and the timer of an open chat follows
ChatTick ==
    /\ now < MaxChatTicks * 20000
    /\ now' = now + 20000
    /\ chat' = IF chat.open
               THEN [chat EXCEPT !.elapsedSec = (now + 20000 - chat.sessionStart) \div 1000]
               ELSE chat
    /\ UNCHANGED <<agents, editingAgentId, walletVars, modalVars, attempts, storeVars,
                   paid, io, chatStore, sentSincePaid>>

\* 1627: onBack, push("/"); taken while no reply is awaited
leaveChat ==
    /\ chat.open /\ ~ chat.loading
    /\ chat' = NoChat
    /\ io' = IO(NoAnswer, None, HomeRoute)
    /\ UNCHANGED <<agents, editingAgentId, walletVars, modalVars, attempts, storeVars,
                   paid, now, chatStore, sentSincePaid>>

\* 5347-5360, 5246-5258: the button of the banner of a blocked chat
buyNewSession ==
    /\ chat.open /\ ~ chat.loading
    /\ sessionBlocked(chat)
    /\ goBuyNewSession(chat.agentId)
    /\ chat' = NoChat
    /\ UNCHANGED <<chatStore, sentSincePaid>>

\* 3385, 3428: a payment for the agent was found valid and saveSession is
\* called, on a page other than the chat; the modal it is paid in opens for an
\* agent without an active session (1336-1347)
sessionPaid(id) ==
    /\ ~ chat.open
    /\ getActiveSession(storage, id, now).result = null
    /\ storage' = saveSession(storage, agents[id], "S1", now)
    /\ sentSincePaid' = [sentSincePaid EXCEPT ![id] = 0]
    /\ UNCHANGED <<agents, editingAgentId, walletVars, modalVars, attempts, storeCall,
                   paid, io, now, chat, chatStore>>

(* SpecChat: the chat of a buyer or a creator, the payments that save a *)
(* session, and the clock                                                *)

InitChat ==
    /\ VerifyRest
    /\ now = 0
    /\ ServerRest
    /\ agents = ChatAgents
    /\ editingAgentId = None
    /\ connected = FALSE /\ address = None /\ walletPk = None
    /\ selected = null /\ payModalOpen = FALSE /\ modalState = "idle"
    /\ attempts = EmptyBag
    /\ storage = [id \in AgentIds |-> null]
    /\ storeCall = NoCall
    /\ paid = [id \in AgentIds |-> NoVerdictYet]
    /\ io = NoIO
    /\ chat = NoChat
    /\ chatStore = [id \in AgentIds |-> null]
    /\ sentSincePaid = [id \in AgentIds |-> 0]

NextChat ==
    \/ (~ chat.open /\ onConnect) /\ UNCHANGED <<verifyVars, serverVars, chatVars>>
    \/ (\E id \in PayableIds : sessionPaid(id)) /\ UNCHANGED <<verifyVars, serverVars>>
    \/ (\E id \in AgentIds : enterChat(id)) /\ UNCHANGED <<verifyVars, serverVars>>
    \/ send /\ UNCHANGED <<verifyVars, serverVars>>
    \/ engineReplied /\ UNCHANGED <<verifyVars, serverVars>>
    \/ leaveChat /\ UNCHANGED <<verifyVars, serverVars>>
    \/ buyNewSession /\ UNCHANGED <<verifyVars, serverVars>>
    \/ ChatTick /\ UNCHANGED <<verifyVars, serverVars>>

SpecChat == InitChat /\ [][NextChat]_vars

-----------------------------------------------------------------------------
(* Properties of verifyTransactionOnChain, checked under SpecVerify *)

Called == verdict # NoVerdict
Fetched == tx # null /\ tx.meta # null
HasErr == Fetched /\ tx.meta.err # None
NoErr == Fetched /\ tx.meta.err = None

\* C2: a fetched transaction whose meta.err is set is rejected with the
\* "failed on-chain" reason (carrying the error payload), whatever its token
\* balances are.
C2_ErrShortCircuits ==
    (Called /\ HasErr) =>
        /\ verdict.valid = FALSE
        /\ verdict.reason.text = ReasonFailedOnChain
        /\ verdict.reason.about = tx.meta.err

\* The call was made on a failed transaction whose balances show a transfer to
\* the expected receiver that the amount check accepts.
C2_Witness ==
    /\ Called
    /\ HasErr
    /\ "postTokenBalances" \in DOMAIN tx.meta
    /\ checkBalances(tx, expectedReceiver, expectedAmount).valid

(* The reference extraction of C6, stated on the arrays and not as a loop. *)
RefPost == IF "postTokenBalances" \in DOMAIN tx.meta THEN tx.meta.postTokenBalances ELSE <<>>
RefPre == IF "preTokenBalances" \in DOMAIN tx.meta THEN tx.meta.preTokenBalances ELSE <<>>
RefAmount(e) == IF e.ui = <<>> THEN 0 ELSE e.ui[1]
RefPreAmount(i) ==
    LET same == { j \in 1 .. Len(RefPre) :
                    /\ RefPre[j].accountIndex = RefPost[i].accountIndex
                    /\ RefPre[j].mint = RefPost[i].mint }
    IN  IF same = {} THEN 0 ELSE RefAmount(RefPre[CHOOSE j \in same : TRUE])
RefDelta(i) == RefAmount(RefPost[i]) - RefPreAmount(i)
RefQualifying ==
    { i \in 1 .. Len(RefPost) :
        RefPost[i].mint = USDC_MINT /\ RefPost[i].owner = expectedReceiver }
RefHits == { i \in RefQualifying : RefDelta(i) > 0 }
RefFirst == CHOOSE i \in RefHits : \A j \in RefHits : i <= j
RefObserved == RefDelta(RefFirst)

\* The nearest integer of amount * 10^6, a half going up.
RefRaw(amount) ==
    CHOOSE r \in { amount \div 10, amount \div 10 + 1 } :
        10 * r - 5 <= amount /\ amount < 10 * r + 5

RefRawDiff == Abs(RefRaw(RefObserved) - RefRaw(expectedAmount))

\* C3: with a qualifying transfer in a successful transaction the verdict is
\* valid exactly when the raw amounts differ by at most 10000; otherwise it is
\* the "amount mismatch" rejection naming the expected and the observed amount.
C3_ToleranceDecides ==
    (Called /\ NoErr /\ RefHits # {}) =>
        IF RefRawDiff <= 10000
        THEN verdict.valid
        ELSE /\ ~ verdict.valid
             /\ verdict.reason.text = ReasonAmountMismatch
             /\ verdict.reason.expected = expectedAmount
             /\ verdict.reason.received = RefObserved

\* A transfer exactly 10000 raw units off the expected amount was accepted.
C3_Witness ==
    /\ Called
    /\ NoErr
    /\ RefHits # {}
    /\ RefRawDiff = 10000
    /\ verdict.valid

\* C6: the verdict of a successful transaction rests on the delta of the first
\* postTokenBalances entry of the USDC mint owned by the receiver whose delta is
\* positive; with no such entry it is the "No USDC transfer found" rejection.
C6_ExtractionMatchesReference ==
    (Called /\ NoErr) =>
        IF RefHits = {}
        THEN /\ ~ verdict.valid
             /\ verdict.reason.text = ReasonNoTransfer
        ELSE IF verdict.valid
             THEN verdict.amount = RefObserved
             ELSE /\ verdict.reason.text = ReasonAmountMismatch
                  /\ verdict.reason.received = RefObserved

\* Two entries qualify with different positive deltas, and the call was made.
C6_Witness ==
    /\ Called
    /\ NoErr
    /\ \E i, j \in RefHits : i < j /\ RefDelta(i) # RefDelta(j)

\* C26: on the transaction the server's verifier was called with, the client's
\* verifier, given the same receiver and amount, returns the same valid flag.
C26_VerifiersAgree ==
    Called =>
        verdict.valid =
            verifyPaymentOnChain([threw |-> FALSE, tx |-> tx], expectedReceiver,
                                 expectedAmount).valid

-----------------------------------------------------------------------------
(* Properties of verifyTransactionOnChain with its fetch, checked under *)
(* SpecVerifyRpc *)

\* the outcome of the getTransaction fetch of the call
FetchOutcome == rpcLog[Len(rpcLog)].outcome

\* C21: whatever the fetch does and whatever it returns, the call ends with a
\* verdict (a record with a boolean valid: no Error leaves the function), and
\* the verdict carries a reason, a non-empty text, exactly when valid is false.
C21_AlwaysAVerdict ==
    Called =>
        /\ "valid" \in DOMAIN verdict
        /\ verdict.valid \in BOOLEAN
        /\ ("reason" \in DOMAIN verdict) <=> ~ verdict.valid
        /\ ~ verdict.valid => verdict.reason.text # ""

\* The fetch threw and the verdict carries the Error's message as its reason.
C21_Witness ==
    /\ Called
    /\ FetchOutcome = "throws"
    /\ verdict.valid = FALSE
    /\ verdict.reason.text = "fetch failed"

\* valid flag and reason of two verdicts are the same
SameVerdict(v, w) ==
    /\ v.valid = w.valid
    /\ ("reason" \in DOMAIN v) = ("reason" \in DOMAIN w)
    /\ "reason" \in DOMAIN v => v.reason = w.reason

\* C22: the verdict of the call is the verdict the same fetch gives with any
\* other buyer argument: none, the fee payer, or a key that is not the fee payer.
C22_BuyerIsIgnored ==
    Called =>
        \A b \in Buyers :
            SameVerdict(verdict, verifyFetched(fetchOf(FetchOutcome), expectedReceiver,
                                               expectedAmount, b))

\* A payment was found valid for a buyer that is not the transaction's fee payer.
C22_Witness ==
    /\ Called
    /\ FetchOutcome = "result"
    /\ tx # null
    /\ expectedBuyer # None
    /\ expectedBuyer # tx.feePayer
    /\ verdict.valid

-----------------------------------------------------------------------------
(* Properties of the verify endpoint, checked under SpecServer *)

\* the base58 / 87-88 character check, on the value the request carries
RefFormatOk(sg) ==
    /\ sg.type = "string"
    /\ IsBase58(sg.str)
    /\ StrLen(sg.str) \in {87, 88}

RefNonEmptyString(v) == v.type = "string" /\ v.str # ""
RefPositiveNumber(v) == v.type = "number" /\ v.num > 0
NoFetch == rpcLog = <<>>

\* C4 as stated: every POST whose signature fails the format check is answered
\* 400, verified=false, with a reason containing "format", and without a fetch.
C4_AsStated ==
    (req # NoReq /\ req.method = "POST" /\ ~ RefFormatOk(req.signature)) =>
        /\ response.status = 400
        /\ response.verified = FALSE
        /\ response.error.text = ErrSignatureFormat
        /\ NoFetch

\* C4 (amended): every POST with a body whose signature fails the format check is
\* answered 400, verified=false, without a fetch; the reason is the "format" one
\* when the signature is a non-empty string and receiver and amount are valid,
\* and otherwise names the input that is missing.
C4_MalformedSignatureRefused ==
    (req # NoReq /\ req.method = "POST" /\ req.hasBody /\ ~ RefFormatOk(req.signature)) =>
        /\ response.status = 400
        /\ response.verified = FALSE
        /\ NoFetch
        /\ IF /\ RefNonEmptyString(req.signature)
              /\ RefNonEmptyString(req.receiver)
              /\ RefPositiveNumber(req.amount)
           THEN response.error.text = ErrSignatureFormat
           ELSE response.error.text \in
                    {ErrSignatureRequired, ErrReceiverRequired, ErrAmountRequired}

\* A signature of 86 base58 characters, with receiver and amount valid, was refused.
C4_Witness ==
    /\ req # NoReq
    /\ req.method = "POST"
    /\ req.hasBody
    /\ req.signature = Str("short86")
    /\ RefNonEmptyString(req.receiver)
    /\ RefPositiveNumber(req.amount)
    /\ response.status = 400

\* every health probe failed and the getTransaction fetch got no JSON-RPC answer
AllUnreachable ==
    /\ Len(rpcLog) = Len(RPC_ENDPOINTS) + 1
    /\ \A i \in 1 .. Len(RPC_ENDPOINTS) : rpcLog[i].outcome # "ok"
    /\ rpcLog[Len(rpcLog)].outcome \in {"throws", "badjson"}

\* C5: with every endpoint unreachable the response is not of the shape of a
\* payment rejection (status 400, verified=false with a reason).
C5_UnavailableIsDistinct ==
    AllUnreachable => ~ (response.status = 400 /\ response.verified = FALSE)

Probes == SubSeq(rpcLog, 1, Len(rpcLog) - 1)
Used == rpcLog[Len(rpcLog)]

\* C23: the probes go through the endpoints in their configured order; the
\* endpoint of the actual call is the first one whose probe answered ok, so it
\* answered ok, no endpoint before it did, and it is the last endpoint probed.
C23_FirstHealthyIsUsed ==
    rpcLog # <<>> =>
        /\ Used.method = "getTransaction"
        /\ Len(Probes) \in 1 .. Len(RPC_ENDPOINTS)
        /\ \A i \in 1 .. Len(Probes) :
                /\ Probes[i].method = "getHealth"
                /\ Probes[i].endpoint = RPC_ENDPOINTS[i]
        /\ \A i \in 1 .. Len(Probes) - 1 : Probes[i].outcome # "ok"
        /\ Probes[Len(Probes)].outcome = "ok"
        /\ Used.endpoint = Probes[Len(Probes)].endpoint

-----------------------------------------------------------------------------
(* Properties of the create-intent endpoint, checked under SpecIntent *)

\* the intents of the registry that had expired before the time t
ExpiredAt(t) == { id \in DOMAIN paymentIntents : paymentIntents[id].expiresAt < t }

RegistryWellFormed ==
    \A id \in DOMAIN paymentIntents :
        /\ paymentIntents[id].id = id
        /\ paymentIntents[id].expiresAt = paymentIntents[id].createdAt + 600000

\* what a create-intent call of request r did to the registry
IntentCreated(r) ==
    /\ response'.status = 200
    /\ "paymentIntent" \in DOMAIN response'
    /\ \A id \in DOMAIN paymentIntents \ ExpiredAt(now) :
            id \in DOMAIN paymentIntents' /\ paymentIntents'[id] = paymentIntents[id]
    /\ \E id \in DOMAIN paymentIntents' :
            /\ DOMAIN paymentIntents' = (DOMAIN paymentIntents \ ExpiredAt(now)) \cup {id}
            /\ id \notin DOMAIN paymentIntents \ ExpiredAt(now)
            /\ paymentIntents'[id].createdAt = now
            /\ response'.paymentIntent.id = id
    /\ \A id \in DOMAIN paymentIntents' : ~ (paymentIntents'[id].expiresAt < now)

FailsValidation(r) ==
    /\ r.method = "POST" /\ r.hasBody
    /\ \/ ~ Truthy(r.agentId) \/ r.agentId.type # "string"
       \/ r.amount.type # "number" \/ r.amount.num <= 0
       \/ ~ Truthy(r.buyer) \/ r.buyer.type # "string"
       \/ r.receiver.type = "string" /\ r.receiver.str \in {"short31", "zero44"}
       \/ r.buyer.type = "string" /\ r.buyer.str \in {"short31", "long45", "zero44"}

\* C24: every stored intent is keyed by its own id and expires 600000 ms after
\* its creation; a create-intent call that fails validation answers 400 and
\* leaves the registry as it was; every other POST with a body answers 200,
\* drops exactly the intents that had expired before the call, keeps the others
\* untouched and adds one intent under a new id, so that no intent expired
\* before the call is in the registry after it.
C24_IntentRegistry ==
    /\ []RegistryWellFormed
    /\ [][\A r \in IntentRequests :
            createIntent(r) =>
                /\ FailsValidation(r) =>
                        response'.status = 400 /\ paymentIntents' = paymentIntents
                /\ (r.method = "POST" /\ r.hasBody /\ ~ FailsValidation(r)) =>
                        IntentCreated(r)]_vars

\* A call has just created an intent while the registry held an intent that ends
\* at this very instant: it is kept, and the registry holds nothing older.
C24_Witness ==
    /\ response # NoResponse
    /\ response.status = 200
    /\ "paymentIntent" \in DOMAIN response
    /\ now >= 900000
    /\ \E a, b \in DOMAIN paymentIntents :
            /\ paymentIntents[b].createdAt = now
            /\ response.paymentIntent.id = b
            /\ paymentIntents[a].expiresAt = now
    /\ Cardinality(DOMAIN paymentIntents) = 2

-----------------------------------------------------------------------------
(* Properties of the pay flow, checked under SpecClient *)

\* the record of a stored item, and its expiry
RefRecord(raw) == JSONparse(raw)
RefHasExpiry(raw) == raw # null /\ RefRecord(raw).expiresAt # <<>>
RefExpired(raw, t) == RefHasExpiry(raw) /\ t > RefRecord(raw).expiresAt[1]
\* what a read of the item at time t returns
RefResult(raw, t) == IF raw = null \/ RefExpired(raw, t) THEN null ELSE RefRecord(raw)

\* C1: an agent has a stored session record only if the client verifier has
\* returned valid for the record's signature, checked against that agent's
\* creatorWallet and priceUSDC; and a step creates or replaces a record only
\* by ending a verification of that agent's payment with such a verdict, the
\* modal going to "paid".  openPay, closePay, startChat, Try Again, a refused
\* signature and an invalid verdict create none.
C1_SessionOnlyAfterValidVerdict ==
    /\ [](\A a \in AgentIds :
            storage[a] # null =>
                /\ paid[a] # NoVerdictYet
                /\ paid[a].valid
                /\ paid[a].receiver = agents[a].creatorWallet
                /\ paid[a].amount = agents[a].priceUSDC
                /\ paid[a].signature = JSONparse(storage[a]).tx)
    /\ [][\A a \in AgentIds :
            (storage'[a] # storage[a] /\ storage'[a] # null) =>
                \E att \in BagToSet(attempts) :
                    /\ att.pc = "verify"
                    /\ att.agent.id = a
                    /\ attempts' = attempts (-) SetToBag({att})
                    /\ JSONparse(storage'[a]).tx = att.signature
                    /\ paid'[a] # NoVerdictYet
                    /\ paid'[a].valid
                    /\ paid'[a].signature = att.signature
                    /\ modalState' = "paid"]_vars

\* a session of a1 is stored and the modal shows the payment as made
C1_Witness ==
    /\ storage["a1"] # null
    /\ paid["a1"] # NoVerdictYet
    /\ modalState = "paid"

\* the caller of openPay is the agent's creator (1314)
IsCreatorOf(agent) == connected /\ agent.creator # None /\ address = agent.creator

\* C12: an openPay of an agent by a caller who is not its creator, while the
\* agent's stored session is active, leaves the modal closed, starts no payment
\* attempt and pushes the chat route of that agent, the agent being selected
\* and the record left as it is; when the stored session has expired by then,
\* the record is removed and the modal opens on the home route instead.
C12_ActiveSessionSkipsModal ==
    [][ \A id \in AgentIds :
            (openPay(id) /\ ~ IsCreatorOf(agents[id])) =>
                /\ RefResult(storage[id], now) # null =>
                        /\ payModalOpen' = FALSE
                        /\ attempts' = attempts
                        /\ io'.pushed = ChatRoute(id)
                        /\ selected' = agents[id]
                        /\ storage' = storage
                /\ RefExpired(storage[id], now) =>
                        /\ payModalOpen' = TRUE
                        /\ attempts' = attempts
                        /\ io'.pushed = HomeRoute
                        /\ selected' = agents[id]
                        /\ storage' = [storage EXCEPT ![id] = null] ]_vars

\* the buyer's wallet is connected, a1 holds a session that has not expired,
\* and the latest step selected a1 and pushed its chat with the modal closed
C12_Witness ==
    /\ connected
    /\ walletPk = BuyerKey
    /\ storage["a1"] # null
    /\ ~ RefExpired(storage["a1"], now)
    /\ selected = agents["a1"]
    /\ ~ payModalOpen
    /\ io.pushed = ChatRoute("a1")

\* the step is an openPay of the agent that opens the modal (1350-1367)
Opens(id) == openPay(id) /\ payModalOpen'

\* the modal stays open on the same agent over the step
StaysOpen == modalShown /\ modalShown' /\ selected' = selected

\* C13: an openPay that opens the modal for an agent with a creator and without
\* a creatorWallet leaves the modal state at "missing_payout_wallet", and while
\* the modal stays open on that agent the state stays "missing_payout_wallet",
\* so that "processing" is not reached.
C13_MissingWalletStateHolds ==
    [][ /\ \A id \in AgentIds :
                (Opens(id) /\ agents[id].creator # None /\ agents[id].creatorWallet = None) =>
                    modalState' = "missing_payout_wallet"
        /\ (StaysOpen /\ modalState = "missing_payout_wallet") =>
                modalState' = "missing_payout_wallet" ]_vars

\* the modal state the agent's properties call for
RefIsFree(agent) == agent.creator = None /\ agent.creatorWallet = None
RefInitial(agent) ==
    IF RefIsFree(agent) THEN "free"
    ELSE IF agent.creatorWallet = None THEN "missing_payout_wallet"
    ELSE "ready"

\* the branch of the modal a state is rendered by: the fallback shows "idle"
\* as "ready" (3402)
RefBranch(state) == IF state = "idle" THEN "ready" ELSE state

\* C14: an openPay that opens the modal leaves the modal state at the value
\* the agent's properties give, "free", "missing_payout_wallet" or "ready"
\* ("idle" being taken for "ready", which it is rendered as); and
\* for a free agent the modal does not go to "processing" while it stays open,
\* and Start Chat pushes the agent's chat and leaves the storage as it is.
C14_InitialStateIsActedOn ==
    [][ /\ \A id \in AgentIds : Opens(id) => RefBranch(modalState') = RefInitial(agents[id])
        /\ (StaysOpen /\ RefIsFree(selected)) => modalState' # "processing"
        /\ (startChat /\ RefIsFree(selected)) =>
                (io'.pushed = ChatRoute(selected.id) /\ storage' = storage) ]_vars

\* C15 as stated: an openPay of an agent by its creator puts the modal state
\* machine in "creator_free" and starts no payment attempt.
C15_CreatorFreeEntered ==
    [][ \A id \in AgentIds :
            (openPay(id) /\ IsCreatorOf(agents[id])) =>
                (modalState' = "creator_free" /\ attempts' = attempts) ]_vars

\* C15: an openPay of an agent by its creator selects the agent, leaves the
\* modal closed, pushes the chat route of the agent and starts no payment
\* attempt, the storage and the modal state staying as they are (or "idle" for
\* a newly selected agent); the modal state is never "creator_free".
C15_CreatorSkipsModal ==
    /\ [](modalState # "creator_free")
    /\ [][ \A id \in AgentIds :
                (openPay(id) /\ IsCreatorOf(agents[id])) =>
                    /\ selected' = agents[id]
                    /\ payModalOpen' = FALSE
                    /\ io'.pushed = ChatRoute(id)
                    /\ attempts' = attempts
                    /\ storage' = storage
                    /\ modalState' = (IF selected = agents[id] THEN modalState ELSE "idle")
          ]_vars

\* the creator of a1 is connected and a1, which has no stored session, was
\* selected by a step that pushed its chat and left the modal closed
C15_Witness ==
    /\ connected
    /\ walletPk = CreatorKey
    /\ selected = agents["a1"]
    /\ IsCreatorOf(selected)
    /\ storage["a1"] = null
    /\ ~ payModalOpen
    /\ io.pushed = ChatRoute("a1")

\* the step ends the verification of the attempt att
EndsVerification(att) == att.pc = "verify" /\ attempts' = attempts (-) SetToBag({att})

\* C16: the step that ends the verification of a signed attempt is decided by
\* the verdict.  A valid verdict saves the session of the attempt's agent with
\* the attempt's signature and puts the modal in "paid", without an alert; an
\* invalid one puts it in "error", alerts the reason and leaves the storage as
\* it is.  The modal state becomes "paid" by no step other than one that ends
\* a verification with a valid verdict.
C16_VerdictDecides ==
    [][ /\ \A att \in BagToSet(attempts) :
                EndsVerification(att) =>
                    /\ io'.answer.kind = "verdict"
                    /\ io'.answer.valid =>
                            /\ modalState' = "paid"
                            /\ io'.alert = None
                            /\ storage'[att.agent.id] # null
                            /\ RefRecord(storage'[att.agent.id]).tx = att.signature
                            /\ RefRecord(storage'[att.agent.id]).paidAt = now
                            /\ \A b \in AgentIds \ {att.agent.id} : storage'[b] = storage[b]
                    /\ ~ io'.answer.valid =>
                            /\ modalState' = "error"
                            /\ io'.alert = "Payment verification failed: " \o io'.answer.reason
                            /\ storage' = storage
        /\ (modalState' = "paid" /\ modalState # "paid") =>
                /\ io'.answer.kind = "verdict"
                /\ io'.answer.valid
                /\ \E att \in BagToSet(attempts) : EndsVerification(att) ]_vars

\* a verification has just ended with the verdict that no transfer to the
\* recipient was found: the modal is in "error" and the reason was alerted
C16_Witness ==
    /\ io.answer.kind = "verdict"
    /\ ~ io.answer.valid
    /\ io.answer.reason = ClientNoTransfer
    /\ io.alert = "Payment verification failed: " \o ClientNoTransfer
    /\ modalState = "error"
    /\ modalShown

C18_OneAttemptAtATime == BagCardinality(attempts) <= 1

\* C19: while the modal stays open on an agent and is not opened anew, a step
\* that takes the modal state away from "error" takes it to "ready", and to no
\* other state.
C19_ErrorLeavesByTryAgain ==
    [][ (StaysOpen /\ modalState = "error" /\ modalState' # "error"
            /\ ~ \E id \in AgentIds : openPay(id)) =>
            modalState' = "ready" ]_vars

\* C20: when the wallet rejects the signing request with the code 4001 or
\* with a message that has "User rejected" or "User cancelled" in it, the
\* invocation ends in that step: the modal state is "error", no alert is
\* raised, the invocation leaves without a verification having been started
\* for it, no verdict is noted and the storage is as it was.
C20_RejectionIsSilent ==
    [][ (handlePayFails /\ isUserRejection(io'.answer)) =>
            /\ modalState' = "error"
            /\ io'.alert = None
            /\ \E att \in BagToSet(attempts) :
                    att.pc = "wallet" /\ attempts' = attempts (-) SetToBag({att})
            /\ BagCardinality(attempts') = BagCardinality(attempts) - 1
            /\ paid' = paid
            /\ storage' = storage ]_vars

\* the wallet has just rejected with the code 4001 and no message: the modal,
\* open, is in "error" and nothing was alerted
C20_Witness ==
    /\ io.answer.kind = "error"
    /\ io.answer.code = 4001
    /\ io.answer.message = ""
    /\ io.alert = None
    /\ modalShown
    /\ modalState = "error"

\* C25: while the modal is open on an agent and shows "paid", a payment of the
\* agent's price to the agent's creatorWallet has been found valid (which is
\* when the session record of the agent is saved); and the step that ends the
\* verification of an attempt started for another agent than the one the open
\* modal is on leaves the modal state as it was.
C25_PaidMeansPaid ==
    /\ [](modalShown /\ modalState = "paid" =>
            /\ "valid" \in DOMAIN paid[selected.id]
            /\ paid[selected.id].valid
            /\ paid[selected.id].receiver = selected.creatorWallet
            /\ paid[selected.id].amount = selected.priceUSDC)
    /\ [][\A att \in BagToSet(attempts) :
            (EndsVerification(att) /\ modalShown /\ att.agent.id # selected.id) =>
                modalState' = modalState]_vars

\* a step of the app after which a signed transfer is being verified
VerificationStarts == NextClient /\ \E att \in BagToSet(attempts') : att.pc = "verify"

\* C29: when the verification of a sent transfer has answered that the
\* transaction was not found and the modal, open, shows the error, with no
\* handlePay invocation in flight (so none that could ask the wallet to sign),
\* the app has a step that starts a verification: the transfer that was sent
\* can be verified again without a second one being signed.
C29_CanVerifyAgain ==
    (/\ modalShown
     /\ modalState = "error"
     /\ io.answer.kind = "verdict"
     /\ ~ io.answer.valid
     /\ io.answer.reason = ClientNotFound
     /\ attempts = EmptyBag) =>
        ENABLED VerificationStarts

\* the modal is closed or is on another agent than the one of the attempt
NavigatedAway(att) == ~ modalShown \/ selected.id # att.agent.id

\* C30: when the verification of an attempt returns valid after the user closed
\* the modal or opened the pay UI for another agent, the session record of the
\* attempt's agent is saved with the attempt's signature, as of now, and the
\* items of all other agents stay as they are.
C30_NavigationKeepsPayment ==
    [][ \A att \in BagToSet(attempts) :
            (/\ EndsVerification(att)
             /\ NavigatedAway(att)
             /\ io'.answer.kind = "verdict"
             /\ io'.answer.valid) =>
                /\ storage'[att.agent.id] # null
                /\ RefRecord(storage'[att.agent.id]).tx = att.signature
                /\ RefRecord(storage'[att.agent.id]).paidAt = now
                /\ \A b \in AgentIds \ {att.agent.id} : storage'[b] = storage[b] ]_vars

\* the payment for a1 has just been found valid while the modal is open on a2:
\* a1 has its session record and a2 has none
C30_Witness ==
    /\ io.answer.kind = "verdict"
    /\ io.answer.valid
    /\ modalShown
    /\ selected.id = "a2"
    /\ storage["a1"] # null
    /\ RefRecord(storage["a1"]).paidAt = now
    /\ storage["a2"] = null
    /\ "valid" \in DOMAIN paid["a1"]
    /\ ~ ("valid" \in DOMAIN paid["a2"])

-----------------------------------------------------------------------------
(* Properties of the session store, checked under SpecStore *)

IsGet == storeCall'.fn = "getActiveSession" /\ storeVars' # storeVars
IsSave == storeCall'.fn = "saveSession" /\ storeVars' # storeVars
ByWrite(a) == storeCall'.fn \in {"saveSession", "clearSession"} /\ storeCall'.id = a

\* C8: a getActiveSession of a record with an expiry returns the record and
\* leaves the storage alone while now <= expiresAt, and returns null and removes
\* the record (of that agent only) once now > expiresAt; of a missing record it
\* returns null and stores nothing, so that after the removal every read returns
\* null, and a missing record appears only by saveSession of that agent; a
\* record without expiry is returned at every time and changes only by
\* saveSession or clearSession of that agent.
C8_LazyExpiry ==
    [][ /\ IsGet =>
            LET a == storeCall'.id
                raw == storage[a]
                result == storeCall'.result
            IN  /\ (RefHasExpiry(raw) /\ now <= RefRecord(raw).expiresAt[1]) =>
                        (result = RefRecord(raw) /\ storage' = storage)
                /\ (RefHasExpiry(raw) /\ now > RefRecord(raw).expiresAt[1]) =>
                        (result = null /\ storage' = [storage EXCEPT ![a] = null])
                /\ raw = null => (result = null /\ storage' = storage)
                /\ (raw # null /\ ~ RefHasExpiry(raw)) =>
                        (result = RefRecord(raw) /\ storage' = storage)
        /\ \A a \in AgentIds :
            /\ (storage[a] = null /\ storage'[a] # null) =>
                    (storeCall'.fn = "saveSession" /\ storeCall'.id = a)
            /\ (storage[a] # null /\ ~ RefExpired(storage[a], now)
                    /\ storage'[a] # storage[a]) => ByWrite(a) ]_vars

\* a read found an expired record, returned null and left nothing stored
C8_Witness ==
    /\ storeCall.fn = "getActiveSession"
    /\ storeCall.raw # null
    /\ storeCall.result = null
    /\ storage[storeCall.id] = null

\* the expiry saveSession is to give a session of the agent paid at paidAt
RefExpiry(agent, paidAt) ==
    IF "maxDurationMinutes" \in DOMAIN agent
        /\ agent.maxDurationMinutes # <<>>
        /\ agent.maxDurationMinutes[1] > 0
    THEN <<paidAt + agent.maxDurationMinutes[1] * 60000>>
    ELSE <<>>

\* C9: right after saveSession(agent, tx), getActiveSession(agent.id) returns a
\* record whose paidAt is the time of the save, whose tx is the signature given
\* and whose expiresAt is paidAt + maxDurationMinutes * 60000 when the agent's
\* maxDurationMinutes is a positive number, and null when it is null, undefined,
\* zero or negative.
C9_SaveThenGet ==
    [][ IsSave =>
            LET agent == storeCall'.agent
                got == getActiveSession(storage', agent.id, now').result
            IN  /\ got # null
                /\ got.paidAt = now
                /\ got.tx = storeCall'.tx
                /\ got.expiresAt = RefExpiry(agent, now) ]_vars

\* a session was just saved for an agent limited to 2 minutes
C9_Witness ==
    /\ storeCall.fn = "saveSession"
    /\ maxDurationMinutesOf(storeCall.agent) = <<2>>
    /\ storage[storeCall.id] # null
    /\ RefRecord(storage[storeCall.id]).paidAt = now
    /\ RefRecord(storage[storeCall.id]).expiresAt = <<now + 120000>>

Read(a) == getActiveSession(storage, a, now).result

\* C10: a submitCreate in edit mode leaves every stored item as it is, and
\* with it what getActiveSession returns; at every time getActiveSession
\* returns what the stored record and the clock determine, whatever limit the
\* agent has now.
C10_EditLeavesSessions ==
    /\ [](\A a \in AgentIds : Read(a) = RefResult(storage[a], now))
    /\ [][ agents' # agents =>
                /\ storage' = storage
                /\ \A a \in AgentIds : Read(a)' = Read(a) ]_vars

\* a1 holds a session saved under its limit of 1 minute, and its limit has
\* been edited since
C10_Witness ==
    /\ storage["a1"] # null
    /\ RefRecord(storage["a1"]).expiresAt = <<RefRecord(storage["a1"]).paidAt + 60000>>
    /\ agents["a1"].maxDurationMinutes # <<1>>

\* C11: the storage holds one item per agent id and the last writer wins.  A
\* saveSession of agent A puts the record of that call in A's place whatever
\* was there, a clearSession of A leaves nothing there, a getActiveSession of A
\* leaves A's item as it is unless it has expired and then leaves nothing; each
\* of these calls leaves the item of every other agent as it was, and no other
\* step changes an item.
C11_LastWriterWins ==
    [][ /\ storage' # storage => storeCall'.fn # "none"
        /\ \A a \in AgentIds :
            /\ (storeCall' # storeCall \/ storage' # storage) /\ storeCall'.id # a =>
                    storage'[a] = storage[a]
            /\ (IsSave /\ storeCall'.id = a) =>
                    storage'[a] = JSONstringify([paidAt |-> now,
                                                 expiresAt |-> RefExpiry(storeCall'.agent, now),
                                                 tx |-> storeCall'.tx])
            /\ (storeCall'.fn = "clearSession" /\ storeCall'.id = a
                    /\ storeVars' # storeVars) => storage'[a] = null
            /\ (IsGet /\ storeCall'.id = a) =>
                    storage'[a] = IF RefExpired(storage[a], now) THEN null ELSE storage[a]
      ]_vars

\* a1's record was written over at a later time, with another signature than
\* the one of the record a2 has held since the start
C11_Witness ==
    /\ storeCall.fn = "saveSession"
    /\ storeCall.id = "a1"
    /\ storage["a1"] # null
    /\ RefRecord(storage["a1"]).paidAt = now
    /\ now > 0
    /\ storage["a2"] # null
    /\ RefRecord(storage["a2"]).paidAt = 0
    /\ RefRecord(storage["a2"]).tx # RefRecord(storage["a1"]).tx

-----------------------------------------------------------------------------
(* Properties of the chat view, checked under SpecChat *)

\* the agent is paid for and sells a time
TimeLimited(agent) ==
    /\ agent.priceUSDC > 0
    /\ maxDurationMinutesOf(agent) # <<>>
    /\ maxDurationMinutesOf(agent)[1] > 0

\* C27: when send() accepts a message (adds it to the history as a user
\* message) in the chat of a time-limited paid agent for a user who is not the
\* agent's creator, getActiveSession of the agent is non-null at that time.
C27_SendNeedsActiveSession ==
    [][ (/\ send
         /\ chat'.messages = Append(chat.messages, "user")
         /\ TimeLimited(agents[chat.agentId])
         /\ ~ isCreatorOfChat(agents[chat.agentId])) =>
            getActiveSession(storage, chat.agentId, now).result # null ]_vars

\* C28: when the chat of an agent with a message limit is entered by a user
\* who is not its creator and no user message was sent since the agent's
\* session was paid, the chat is not blocked by the message limit.
C28_NewSessionNewCount ==
    [][ \A id \in AgentIds :
            (/\ enterChat(id)
             /\ ~ isCreatorOfChat(agents[id])
             /\ maxMessagesPerSessionOf(agents[id]) # <<>>
             /\ sentSincePaid[id] = 0) =>
                ~ limitsOf(chat').overMessages ]_vars

====
